---- MODULE Spec2Model ----
(***************************************************************************)
(* Model of the multi-agent orchestration engine of                        *)
(* backend/multi_agent.py: one MultiAgentOrchestrator object (the          *)
(* module-level singleton of backend/main.py), on which process_goal is    *)
(* called once per submitted objective.                                    *)
(*                                                                         *)
(* process_goal is a coroutine whose awaits never suspend (the backend is  *)
(* called with the blocking requests library), so two calls never          *)
(* overlap: a session runs from its first to its last step before the     *)
(* next one starts.  The steps of one call are kept apart so that the      *)
(* states in which a task is in_progress are states of the model.          *)
(* get_session_status only reads; it is allowed between any two steps (a   *)
(* reader on another thread), which adds replies and no program state.     *)
(*                                                                         *)
(* _execute_tool_calls reads nothing of the orchestrator (its task         *)
(* argument is unused), so one call of it is followed on its own, in       *)
(* ToolSpec, from a response that holds some tool calls; in Spec its       *)
(* variables stay as Init leaves them.                                     *)
(*                                                                         *)
(* The text functions (the two tool-call patterns, _parse_tool_params,     *)
(* _extract_json) are followed in ParseSpec, each on texts written from    *)
(* what the text is meant to say, so that what is parsed can be compared   *)
(* with what was written.                                                  *)
(*                                                                         *)
(* ApiSpec is the orchestrator behind the endpoints of backend/main.py:    *)
(* submissions store a session record and queue a background job, a job    *)
(* runs process_goal through the same steps as in Spec and updates its     *)
(* record when process_goal returns.  In Spec process_goal is called on    *)
(* the orchestrator itself and the variables of main.py stay as Init       *)
(* leaves them.                                                            *)
(*                                                                         *)
(* QueueSpec is backend/screenshot_queue.py: the two module-level lists    *)
(* and the endpoints that take a screenshot, report, delete, move and      *)
(* clear.  The handlers are coroutines without an await, so each request   *)
(* is one step.  What a screenshot item holds besides its id (preview,     *)
(* analysis, OCR text) plays no part in what the queues hold and is left   *)
(* out, and so is the analyze endpoint, which changes only those fields.   *)
(***************************************************************************)
EXTENDS Integers, Sequences, FiniteSets, TLC

\* Number of process_goal calls made on the orchestrator.
MaxSessions == 2

\* Python's None, for the Optional[str] fields.
None == "None"

\* The session id of an orchestrator on which process_goal never ran
\* (active_session_id is None).  Session ids are uuid4 strings in the code;
\* the k-th call of process_goal gets the fresh id k.
NoSession == 0

AgentRole == {"planner", "designer", "coder", "context"}

\* The task ids the planner uses.
TaskIds == {"A", "B", "C", "D"}

TaskStatus == {"pending", "in_progress", "completed", "failed", "needs_revision"}

\* output_data of a task that has produced nothing: the empty dict.
EmptyDict == [type |-> "{}", task_id |-> None, keys |-> {}]

\* None where the code expects a dict (Optional[Dict[str, Any]]).
NoneDict == [type |-> None, task_id |-> None, keys |-> {}]

\* The truth value Python gives a result dict: None and {} are false.
Truthy(r) == r # NoneDict /\ r # EmptyDict

\* ---------------------------------------------------------------------
\* Planner output: what _call_ollama hands to _call_planner.
\* ---------------------------------------------------------------------

\* One entry of plan["subtasks"].  The description text is written as the id
\* it describes.  fields = FALSE: one of the keys id, type, description,
\* agent is missing (KeyError in the Task constructor call).
Subtask(i, a, d) ==
    [id |-> i, type |-> "subtask", description |-> i, agent |-> a,
     dependencies |-> d, fields |-> TRUE]

Plan3 == << Subtask("A", "designer", {}),
            Subtask("B", "coder", {"A"}),
            Subtask("C", "coder", {"A", "B"}) >>

Cycle2 == << Subtask("A", "designer", {"B"}), Subtask("B", "coder", {"A"}) >>

\* B depends on C, and the plan has no task C.
Dangling == << Subtask("A", "designer", {}), Subtask("B", "coder", {"C"}) >>

\* B is declared before the task A it depends on.
Forward == << Subtask("B", "coder", {"A"}), Subtask("A", "designer", {}) >>

\* The second subtask names a role that is no AgentRole.
BadRole == << Subtask("A", "designer", {}),
              Subtask("B", "tester", {}),
              Subtask("C", "coder", {}) >>

\* The first subtask lacks a required key.
MissingField == << [Subtask("D", "coder", {}) EXCEPT !.fields = FALSE],
                   Subtask("A", "designer", {}) >>

Pair == << Subtask("A", "designer", {}), Subtask("D", "coder", {}) >>

Single == << Subtask("A", "coder", {}) >>

\* A valid role that _execute_plan has no branch for.
ContextTask == << Subtask("D", "context", {}) >>

\* The other valid role that _execute_plan has no branch for.
PlannerTask == << Subtask("D", "planner", {}) >>

PlannerOutputs ==
    { [kind |-> "plan", subtasks |-> s] :
        s \in {Plan3, Cycle2, Dangling, Forward, BadRole, MissingField,
               Pair, Single, ContextTask, PlannerTask, << >>} }
    \cup { [kind |-> "no_json", subtasks |-> << >>],
           [kind |-> "ollama_error", subtasks |-> << >>] }

\* ---------------------------------------------------------------------
\* Errors and results
\* ---------------------------------------------------------------------

\* An exception, by the message the code builds for it.
Error(k, ids, cause) == [kind |-> k, ids |-> ids, cause |-> cause]

NoError == Error("none", << >>, "")

\* The dict process_goal returns; NoResult while a call is running and before
\* the first call.
NoResult == [session_id |-> NoSession, status |-> "none", error |-> NoError,
             results |-> {}, tasks |-> << >>]

NoReply == [session_id |-> NoSession, tasks |-> << >>,
            overall_progress |-> [num |-> 0, den |-> 1], asked |-> FALSE]

VARIABLES
    tasks,              \* self.tasks: task id -> Task
    order,              \* key order of the dict self.tasks (insertion order)
    active_session_id,  \* self.active_session_id
    pc,                 \* where the running process_goal call stands
    plan,               \* plan["subtasks"] of the running call
    executed_tasks,     \* local set of _execute_plan
    ready_tasks,        \* local list of _execute_plan (task ids)
    idx,                \* position of the for loop in ready_tasks
    results,            \* keys of the local dict results
    result,             \* value returned by the last finished process_goal
    status_reply,       \* value returned by get_session_status just now
    started,            \* log: ids moved to in_progress by the running call
    ollama_calls,       \* log: the _call_ollama calls of the running call
    messages,           \* self.messages
    now,                \* the clock: the last value datetime.now() returned
    response,           \* _execute_tool_calls: the tool calls in its argument
    tool_results,       \* _execute_tool_calls: the local list tool_results
    tpc,                \* _execute_tool_calls: which loop it is in
    tk,                 \* _execute_tool_calls: position in the loop's matches
    dispatched,         \* log: tool functions invoked and HTTP requests sent
    context_log,        \* context_agent.command_history
    outcomes,           \* log: what the environment did with each tool call
    given,              \* what the text under parsing was written from
    text,               \* the text handed to a parsing function, as tokens
    parsed,             \* what the parsing function returned or raised
    ppc,                \* which parsing function has run
    active_sessions,    \* main.py: active_sessions, session id -> record
    background,         \* main.py: the background tasks not yet started
    job,                \* session id of the running _process_multi_agent_task
    second,             \* the wall clock, in seconds
    http_reply,         \* the answer to the HTTP request made just now
    submitted,          \* log: the session ids the submissions returned
    screenshot_queue,        \* screenshot_queue.py: screenshot_queue
    extra_screenshot_queue,  \* screenshot_queue.py: extra_screenshot_queue
    issued,             \* number of screenshot ids uuid4 has issued
    queue_requests,     \* number of delete, move and clear requests handled
    queue_reply         \* the answer to the queue request made just now

\* The variables of a call of _execute_tool_calls.
tool_vars == << response, tool_results, tpc, tk, dispatched, context_log,
               outcomes >>

\* The variables of the orchestrator, of the running process_goal and of
\* main.py.
orchestrator_vars ==
    << tasks, order, active_session_id, pc, plan, executed_tasks,
       ready_tasks, idx, results, result, status_reply, started,
       ollama_calls, messages, now, active_sessions, background, job, second,
       http_reply, submitted >>

\* The variables of main.py.
api_vars ==
    << active_sessions, background, job, second, http_reply, submitted >>

\* The variables of one call of a parsing function.
parse_vars == << given, text, parsed, ppc >>

\* The variables of backend/screenshot_queue.py.
queue_vars ==
    << screenshot_queue, extra_screenshot_queue, issued, queue_requests,
       queue_reply >>

vars == << orchestrator_vars, tool_vars, parse_vars, queue_vars >>

\* ---------------------------------------------------------------------
\* _call_planner
\* ---------------------------------------------------------------------

\* Task(...) of _call_planner at time at.  session records which
\* process_goal call built the object; the code keeps no such field.
\* created_at is written once and read nowhere; it is left out.
NewTask(s, sid, at) ==
    [id |-> s.id, type |-> s.type, description |-> s.description,
     agent |-> s.agent, status |-> "pending", input_data |-> s,
     dependencies |-> s.dependencies, output_data |-> EmptyDict,
     updated_at |-> at, error_message |-> None, session |-> sid]

\* subtask["id"], subtask["type"], ... and AgentRole(subtask["agent"]) succeed.
ValidSubtask(s) == s.fields /\ s.agent \in AgentRole

\* self.tasks[task.id] = task on graph g = [tasks, order].
PutTask(g, t) ==
    [tasks |-> [i \in DOMAIN g.tasks \cup {t.id} |->
                    IF i = t.id THEN t ELSE g.tasks[i]],
     order |-> IF t.id \in DOMAIN g.tasks THEN g.order ELSE Append(g.order, t.id),
     raised |-> g.raised]

\* The for loop of _call_planner from subtask k on: tasks are stored one at a
\* time, and the first invalid subtask raises out of the loop.
RECURSIVE CreateTasks(_, _, _, _, _)
CreateTasks(subtasks, k, g, sid, at) ==
    IF k > Len(subtasks) THEN g
    ELSE IF ~ValidSubtask(subtasks[k])
         THEN [g EXCEPT !.raised = Error("planner_failed", << >>, "invalid subtask")]
         ELSE CreateTasks(subtasks, k + 1,
                          PutTask(g, NewTask(subtasks[k], sid, at)), sid, at)

_call_planner(out, g, sid, at) ==
    IF out.kind = "ollama_error"
    THEN [g EXCEPT !.raised = Error("ollama", << >>, "Failed to call Ollama")]
    ELSE IF out.kind = "no_json"
    THEN [g EXCEPT !.raised = Error("planner_failed", << >>, "No valid JSON found")]
    ELSE CreateTasks(out.subtasks, 1, g, sid, at)

\* ---------------------------------------------------------------------
\* _execute_plan
\* ---------------------------------------------------------------------

\* The condition under which the first for loop of _execute_plan takes a task.
IsReady(t, executed) ==
    /\ t.status = "pending"
    /\ \A dep \in t.dependencies : dep \in executed

\* ready_tasks: the ready tasks in the order self.tasks iterates them.
RECURSIVE ReadyTasks(_, _, _)
ReadyTasks(ts, ord, executed) ==
    IF ord = << >> THEN << >>
    ELSE IF IsReady(ts[Head(ord)], executed)
         THEN << Head(ord) >> \o ReadyTasks(ts, Tail(ord), executed)
         ELSE ReadyTasks(ts, Tail(ord), executed)

\* A stuck check that reports the first pending task only.
PendingTasks_First(ts, ord) ==
    LET P == {k \in 1 .. Len(ord) : ts[ord[k]].status = "pending"}
    IN IF P = {} THEN << >>
       ELSE << ord[CHOOSE k \in P : \A j \in P : k <= j] >>

\* pending_tasks of the stuck check.
RECURSIVE PendingTasks(_, _)
PendingTasks(ts, ord) ==
    IF ord = << >> THEN << >>
    ELSE IF ts[Head(ord)].status = "pending"
         THEN << Head(ord) >> \o PendingTasks(ts, Tail(ord))
         ELSE PendingTasks(ts, Tail(ord))

\* The while condition of _execute_plan.
LoopCondition(executed, subtasks) == Cardinality(executed) < Len(subtasks)

\* A start that also drops the dependencies, as a scheduler that consumes
\* the edges it has satisfied would.
MarkInProgress_DropsDependencies(t, at) ==
    [t EXCEPT !.status = "in_progress", !.updated_at = at, !.dependencies = {}]

MarkInProgress(t, at) == [t EXCEPT !.status = "in_progress", !.updated_at = at]

\* The dict _call_designer and _call_coder return.
AgentResult(t) ==
    [type |-> IF t.agent = "designer" THEN "design_spec" ELSE "implementation",
     task_id |-> t.id,
     keys |-> IF t.agent = "designer"
              THEN {"type", "content", "task_id", "created_at"}
              ELSE {"type", "content", "tool_results", "task_id",
                    "created_at"}]

\* A choice of model that sends every agent to the control model.
ModelFor_Control(agent) == "control"

\* The model an agent's prompt is sent to: self.control_model for the
\* planner and the designer, self.code_model for the coder.
ModelFor(agent) == IF agent = "coder" THEN "code" ELSE "control"

\* One call of _call_ollama: the task it is made for (None for the plan)
\* and the model.
OllamaCall(task_id, agent) == [task |-> task_id, model |-> ModelFor(agent)]

\* A completion that stores the output and leaves the status as it is.
MarkCompleted_StatusKept(t, out, at) ==
    [t EXCEPT !.output_data = out, !.updated_at = at]

MarkCompleted(t, out, at) ==
    [t EXCEPT !.output_data = out, !.status = "completed", !.updated_at = at]

\* A failure that asks for a revision instead of failing the task.
MarkFailed_NeedsRevision(t, e, at) ==
    [t EXCEPT !.status = "needs_revision", !.error_message = e, !.updated_at = at]

\* A failure that puts the error into output_data as well.
MarkFailed_OutputError(t, e, at) ==
    [t EXCEPT !.status = "failed", !.error_message = e, !.updated_at = at,
              !.output_data = [type |-> "error", task_id |-> t.id,
                               keys |-> {"error"}]]

\* A failure that leaves updated_at as it was.
MarkFailed_NoStamp(t, e, at) ==
    [t EXCEPT !.status = "failed", !.error_message = e]

MarkFailed(t, e, at) ==
    [t EXCEPT !.status = "failed", !.error_message = e, !.updated_at = at]

\* The branch taken when the recovery hook gave a result: the task is
\* completed with it; updated_at and error_message stay as the except branch
\* left them.
MarkRecovered(t, out) == [t EXCEPT !.status = "completed", !.output_data = out]

\* A recovery hook that always produces a result.
_attempt_recovery_Result(t, e) == AgentResult(t)

\* Recovery after a failure: the result dict to use instead, or None.
_attempt_recovery(t, e) == NoneDict

\* The list process_goal puts under "tasks" when it fails.
RECURSIVE TaskList(_, _)
TaskList(ts, ord) ==
    IF ord = << >> THEN << >> ELSE << ts[Head(ord)] >> \o TaskList(ts, Tail(ord))

\* ---------------------------------------------------------------------
\* get_session_status
\* ---------------------------------------------------------------------

\* A progress that counts every finished task, failed ones too, as done.
_calculate_task_progress_Finished(t) ==
    IF t.status \in {"completed", "failed"} THEN 100
    ELSE IF t.status = "in_progress" THEN 50
    ELSE 0

_calculate_task_progress(t) ==
    IF t.status = "completed" THEN 100
    ELSE IF t.status = "in_progress" THEN 50
    ELSE IF t.status = "failed" THEN 0
    ELSE 0

RECURSIVE SumProgress(_, _)
SumProgress(ts, ord) ==
    IF ord = << >> THEN 0
    ELSE _calculate_task_progress(ts[Head(ord)]) + SumProgress(ts, Tail(ord))

\* total_progress / len(self.tasks), kept as the fraction num/den.
_calculate_overall_progress(ts, ord) ==
    IF ord = << >> THEN [num |-> 0, den |-> 1]
    ELSE [num |-> SumProgress(ts, ord), den |-> Len(ord)]

RECURSIVE StatusEntries(_, _)
StatusEntries(ts, ord) ==
    IF ord = << >> THEN << >>
    ELSE << [id |-> ts[Head(ord)].id, agent |-> ts[Head(ord)].agent,
             description |-> ts[Head(ord)].description,
             status |-> ts[Head(ord)].status,
             progress |-> _calculate_task_progress(ts[Head(ord)]),
             updated_at |-> ts[Head(ord)].updated_at] >>
         \o StatusEntries(ts, Tail(ord))

\* ---------------------------------------------------------------------
\* Steps
\* ---------------------------------------------------------------------

\* No background job is running.
NoJob == 0

NoHttpReply ==
    [code |-> 0, session_id |-> NoJob, status |-> "", progress |-> 0,
     current_task |-> "", tasks |-> << >>]

\* The record _start_multi_agent_task stores for a new session.
Initiated ==
    [status |-> "initiated", progress |-> 0,
     current_task |-> "Initializing multi-agent system", result |-> "none"]

\* main.py:233-234
Processing(record) ==
    [record EXCEPT !.status = "processing",
                   !.current_task = "Planning and coordination"]

\* main.py:240-245: the update after process_goal returned res; of the
\* result the record's result field keeps the status here.
Finished(record, res) ==
    [record EXCEPT !.status = "completed", !.progress = 100,
                   !.result = res.status]

\* main.py:217-223 with a record that is kept when the id is known.
Store_KeepsKnown(sessions, session_id) ==
    IF session_id \in DOMAIN sessions THEN sessions
    ELSE [i \in DOMAIN sessions \cup {session_id} |->
             IF i = session_id THEN Initiated ELSE sessions[i]]

\* main.py:217-223: active_sessions[session_id] = {...}
Store(sessions, session_id) ==
    [i \in DOMAIN sessions \cup {session_id} |->
        IF i = session_id THEN Initiated ELSE sessions[i]]

\* No parsing function is running.
ParseOff ==
    /\ given = [kind |-> "none"]
    /\ text = << >>
    /\ parsed = [kind |-> "none"]
    /\ ppc = "off"

\* The id no screenshot has: uuid4 issues the ids 1, 2, 3, ...
UnknownId == 0

\* No request has been made of the screenshot queue.
NoQueueReply ==
    [status_code |-> 0, kind |-> "none", id |-> UnknownId, queue |-> << >>,
     extra_queue |-> << >>, total_count |-> 0]

\* The two queues of screenshot_queue.py after import.
QueuesEmpty ==
    /\ screenshot_queue = << >>
    /\ extra_screenshot_queue = << >>
    /\ issued = 0
    /\ queue_requests = 0
    /\ queue_reply = NoQueueReply

\* The orchestrator after __init__ and the screenshot queues after import.
Constructed ==
    /\ QueuesEmpty
    /\ tasks = << >>
    /\ order = << >>
    /\ active_session_id = NoSession
    /\ pc = "idle"
    /\ plan = << >>
    /\ executed_tasks = {}
    /\ ready_tasks = << >>
    /\ idx = 0
    /\ results = {}
    /\ result = NoResult
    /\ status_reply = NoReply
    /\ started = << >>
    /\ ollama_calls = << >>
    /\ messages = << >>
    /\ now = 0
    /\ active_sessions = << >>
    /\ background = << >>
    /\ job = NoJob
    /\ second = 1
    /\ http_reply = NoHttpReply
    /\ submitted = << >>

\* No call of _execute_tool_calls is followed.
Init ==
    /\ Constructed
    /\ response = << >>
    /\ tool_results = << >>
    /\ tpc = "off"
    /\ tk = 0
    /\ dispatched = << >>
    /\ context_log = << >>
    /\ outcomes = << >>
    /\ ParseOff

\* An except branch that returns the error without the tasks.
ReturnFailed_NoTasks(e, ts, ord) ==
    /\ pc' = "idle"
    /\ result' = [session_id |-> active_session_id', status |-> "failed",
                  error |-> e, results |-> {}, tasks |-> << >>]

\* The except branch of process_goal.
ReturnFailed(e, ts, ord) ==
    /\ pc' = "idle"
    /\ result' = [session_id |-> active_session_id', status |-> "failed",
                  error |-> e, results |-> {}, tasks |-> TaskList(ts, ord)]

\* return results; _finalize_execution; the return of process_goal.
ReturnCompleted(res) ==
    /\ pc' = "idle"
    /\ result' = [session_id |-> active_session_id', status |-> "completed",
                  error |-> NoError, results |-> res, tasks |-> << >>]

\* main.py:239-245: what follows the await of process_goal in
\* _process_multi_agent_task, taken in the step in which process_goal
\* returns.
AfterAwait ==
    /\ IF pc' = "idle" /\ job # NoJob
       THEN /\ active_sessions' =
                 [active_sessions EXCEPT ![job] = Finished(@, result')]
            /\ job' = NoJob
       ELSE UNCHANGED << active_sessions, job >>
    /\ http_reply' = NoHttpReply
    /\ UNCHANGED << background, second, submitted >>

\* process_goal up to the first pass of the scheduler loop.
ProcessGoal(out) ==
    /\ UNCHANGED << tool_vars, parse_vars, queue_vars >>
    /\ pc = "idle"
    /\ active_session_id < MaxSessions
    /\ now' = now + 1
    /\ UNCHANGED messages
    /\ LET sid == active_session_id + 1
           g == _call_planner(out, [tasks |-> tasks, order |-> order,
                                    raised |-> NoError], sid, now')
       IN /\ active_session_id' = sid
          /\ tasks' = g.tasks
          /\ order' = g.order
          /\ executed_tasks' = {}
          /\ ready_tasks' = << >>
          /\ idx' = 0
          /\ results' = {}
          /\ started' = << >>
          /\ ollama_calls' = << OllamaCall(None, "planner") >>
          /\ status_reply' = NoReply
          /\ IF g.raised # NoError
             THEN /\ plan' = << >>
                  /\ ReturnFailed(g.raised, g.tasks, g.order)
             ELSE /\ plan' = out.subtasks
                  /\ pc' = "loop"
                  /\ result' = NoResult

\* A call of process_goal made on the orchestrator itself.
process_goal(out) ==
    /\ ProcessGoal(out)
    /\ UNCHANGED api_vars

\* A pass that marks the tasks it selects as in_progress while it builds
\* the ready list.
SchedulerPass_Claims ==
    /\ UNCHANGED << tool_vars, parse_vars, queue_vars >>
    /\ pc = "loop"
    /\ status_reply' = NoReply
    /\ UNCHANGED << order, active_session_id, plan, executed_tasks,
                    results, started, ollama_calls, messages, now >>
    /\ IF LoopCondition(executed_tasks, plan)
       THEN LET ready == ReadyTasks(tasks, order, executed_tasks)
                pending == PendingTasks(tasks, order)
            IN IF ready = << >>
               THEN /\ UNCHANGED << tasks, ready_tasks, idx >>
                    /\ IF pending # << >>
                       THEN ReturnFailed(Error("stuck", pending, "Execution stuck"),
                                         tasks, order)
                       ELSE ReturnCompleted(results)
               ELSE /\ tasks' = [i \in DOMAIN tasks |->
                                   IF IsReady(tasks[i], executed_tasks)
                                   THEN MarkInProgress(tasks[i], now)
                                   ELSE tasks[i]]
                    /\ ready_tasks' = ready
                    /\ idx' = 1
                    /\ pc' = "for"
                    /\ UNCHANGED result
       ELSE /\ UNCHANGED << tasks, ready_tasks, idx >>
            /\ ReturnCompleted(results)
    /\ AfterAwait

\* One evaluation of the while condition and, when it holds, of the ready
\* list and of the stuck check.
SchedulerPass ==
    /\ UNCHANGED << tool_vars, parse_vars, queue_vars >>
    /\ pc = "loop"
    /\ status_reply' = NoReply
    /\ UNCHANGED << tasks, order, active_session_id, plan, executed_tasks,
                    results, started, ollama_calls, messages, now >>
    /\ IF LoopCondition(executed_tasks, plan)
       THEN LET ready == ReadyTasks(tasks, order, executed_tasks)
                pending == PendingTasks(tasks, order)
            IN IF ready = << >>
               THEN /\ UNCHANGED << ready_tasks, idx >>
                    /\ IF pending # << >>
                       THEN ReturnFailed(Error("stuck", pending, "Execution stuck"),
                                         tasks, order)
                       ELSE ReturnCompleted(results)
               ELSE /\ ready_tasks' = ready
                    /\ idx' = 1
                    /\ pc' = "for"
                    /\ UNCHANGED result
       ELSE /\ UNCHANGED << ready_tasks, idx >>
            /\ ReturnCompleted(results)
    /\ AfterAwait

\* task.status = TaskStatus.IN_PROGRESS, up to the await of the agent call.
StartTask ==
    /\ UNCHANGED << tool_vars, parse_vars, queue_vars >>
    /\ pc = "for"
    /\ now' = now + 1
    /\ LET t == ready_tasks[idx]
       IN /\ tasks' = [tasks EXCEPT ![t] = MarkInProgress(tasks[t], now')]
          /\ started' = Append(started, t)
    /\ pc' = "await"
    /\ status_reply' = NoReply
    /\ UNCHANGED << order, active_session_id, plan, executed_tasks, ready_tasks,
                    idx, results, result, ollama_calls, messages >>
    /\ AfterAwait

\* The for loop moves to the next ready task, or the while loop to its next pass.
NextTask ==
    IF idx < Len(ready_tasks)
    THEN /\ idx' = idx + 1
         /\ pc' = "for"
         /\ UNCHANGED ready_tasks
    ELSE /\ idx' = 0
         /\ ready_tasks' = << >>
         /\ pc' = "loop"

\* The agent call returns a result.
AgentReturns ==
    /\ UNCHANGED << tool_vars, parse_vars, queue_vars >>
    /\ pc = "await"
    /\ now' = now + 1
    /\ LET t == ready_tasks[idx]
       IN /\ tasks[t].agent \in {"designer", "coder"}
          /\ tasks' = [tasks EXCEPT ![t] =
                          MarkCompleted(tasks[t], AgentResult(tasks[t]), now')]
          /\ executed_tasks' = executed_tasks \cup {t}
          /\ results' = results \cup {t}
    /\ NextTask
    /\ status_reply' = NoReply
    /\ ollama_calls' = Append(ollama_calls,
                              OllamaCall(ready_tasks[idx],
                                         tasks[ready_tasks[idx]].agent))
    /\ UNCHANGED << order, active_session_id, plan, result, started, messages >>
    /\ AfterAwait

\* The agent call raises (backend error or timeout), or the role has no agent.
AgentRaises ==
    /\ UNCHANGED << tool_vars, parse_vars, queue_vars >>
    /\ pc = "await"
    /\ status_reply' = NoReply
    /\ ollama_calls' =
          IF tasks[ready_tasks[idx]].agent \in {"designer", "coder"}
          THEN Append(ollama_calls, OllamaCall(ready_tasks[idx],
                                               tasks[ready_tasks[idx]].agent))
          ELSE ollama_calls
    /\ UNCHANGED << order, active_session_id, plan, started, messages >>
    /\ now' = now + 1
    /\ LET t == ready_tasks[idx]
           e == IF tasks[t].agent \in {"designer", "coder"}
                THEN "Failed to call Ollama"
                ELSE "Unknown agent type"
           failed == MarkFailed(tasks[t], e, now')
           recovery_result == _attempt_recovery(failed, e)
       IN IF Truthy(recovery_result)
          THEN /\ tasks' = [tasks EXCEPT ![t] = MarkRecovered(failed, recovery_result)]
               /\ executed_tasks' = executed_tasks \cup {t}
               /\ results' = results \cup {t}
               /\ NextTask
               /\ UNCHANGED result
          ELSE /\ tasks' = [tasks EXCEPT ![t] = failed]
               /\ UNCHANGED << executed_tasks, ready_tasks, idx, results >>
               /\ ReturnFailed(Error("task_failed", << t >>, e), tasks', order)
    /\ AfterAwait

\* A status call that makes the session it reports the active one.
get_session_status_Activates(session_id) ==
    /\ UNCHANGED << tool_vars, parse_vars, queue_vars >>
    /\ status_reply' =
         [session_id |-> IF session_id # NoSession THEN session_id
                         ELSE active_session_id,
          tasks |-> StatusEntries(tasks, order),
          overall_progress |-> _calculate_overall_progress(tasks, order),
          asked |-> TRUE]
    /\ active_session_id' = status_reply'.session_id
    /\ UNCHANGED << tasks, order, pc, plan, executed_tasks,
                    ready_tasks, idx, results, result, started, ollama_calls,
                    messages, now >>
    /\ UNCHANGED api_vars

\* get_session_status(session_id); NoSession stands for the default None.
get_session_status(session_id) ==
    /\ UNCHANGED << tool_vars, parse_vars, queue_vars >>
    /\ status_reply' =
         [session_id |-> IF session_id # NoSession THEN session_id
                         ELSE active_session_id,
          tasks |-> StatusEntries(tasks, order),
          overall_progress |-> _calculate_overall_progress(tasks, order),
          asked |-> TRUE]
    /\ UNCHANGED << tasks, order, active_session_id, pc, plan, executed_tasks,
                    ready_tasks, idx, results, result, started, ollama_calls,
                    messages, now >>
    /\ UNCHANGED api_vars

Next ==
    \/ \E out \in PlannerOutputs : process_goal(out)
    \/ SchedulerPass
    \/ StartTask
    \/ AgentReturns
    \/ AgentRaises
    \/ \E s \in NoSession .. active_session_id : get_session_status(s)

Spec == Init /\ [][Next]_vars

\* The running call is never abandoned: the coroutine runs to its return.
Running == SchedulerPass \/ StartTask \/ AgentReturns \/ AgentRaises

LiveSpec == Spec /\ WF_vars(Running)

\* ---------------------------------------------------------------------
\* main.py: the orchestrator behind the HTTP endpoints
\* ---------------------------------------------------------------------

\* The last second of the wall clock that is followed.
MaxSeconds == 2

\* The planner outputs of the sessions started over HTTP: a plan that
\* runs, a plan that cannot be built, a plan that gets stuck.
ApiPlannerOutputs ==
    { [kind |-> "plan", subtasks |-> s] : s \in {Single, Pair, MissingField, Cycle2} }

\* session_id = f"session_{datetime.now().strftime('%Y%m%d_%H%M%S')}": the
\* id is the second of the call.
SessionId(at) == at

\* The wall clock moves to the next second.  A job never yields to the
\* event loop (process_goal blocks in requests.post), so the clock is read
\* only between jobs and is moved only there.
Tick ==
    /\ pc = "idle"
    /\ second < MaxSeconds
    /\ second' = second + 1
    /\ http_reply' = NoHttpReply
    /\ status_reply' = NoReply
    /\ UNCHANGED << tasks, order, active_session_id, pc, plan, executed_tasks,
                    ready_tasks, idx, results, result, started, ollama_calls,
                    messages, now,
                    active_sessions, background, job, submitted >>
    /\ UNCHANGED << tool_vars, parse_vars, queue_vars >>

\* POST /v1/tasks/submit: submit_task with _start_multi_agent_task.
submit_task ==
    /\ pc = "idle"
    /\ active_session_id + Len(background) < MaxSessions
    /\ LET session_id == SessionId(second)
       IN /\ active_sessions' = Store(active_sessions, session_id)
          /\ background' = Append(background, session_id)
          /\ submitted' = Append(submitted, session_id)
          /\ http_reply' = [NoHttpReply EXCEPT !.code = 200,
                                               !.session_id = session_id,
                                               !.status = "submitted"]
    /\ status_reply' = NoReply
    /\ UNCHANGED << tasks, order, active_session_id, pc, plan, executed_tasks,
                    ready_tasks, idx, results, result, started, ollama_calls,
                    messages, now,
                    job, second >>
    /\ UNCHANGED << tool_vars, parse_vars, queue_vars >>

\* raise HTTPException(status_code=404, detail="Session not found")
NotFound == [NoHttpReply EXCEPT !.code = 404, !.status = "Session not found"]

\* A status answer that takes the id from the orchestrator's session.
StatusAnswer_ActiveId(session_id) ==
    [code |-> 200,
     session_id |-> active_session_id,
     status |-> active_sessions[session_id].status,
     progress |-> active_sessions[session_id].progress,
     current_task |-> active_sessions[session_id].current_task,
     tasks |-> StatusEntries(tasks, order)]

\* main.py:272-281: the TaskStatusResponse for a known session.
StatusAnswer(session_id) ==
    [code |-> 200,
     session_id |-> session_id,
     status |-> active_sessions[session_id].status,
     progress |-> active_sessions[session_id].progress,
     current_task |-> active_sessions[session_id].current_task,
     tasks |-> StatusEntries(tasks, order)]

\* A status request that makes a record for an id it does not know.
get_task_status_Creates(session_id) ==
    /\ http_reply' = IF session_id \in DOMAIN active_sessions
                     THEN StatusAnswer(session_id) ELSE NotFound
    /\ active_sessions' = Store_KeepsKnown(active_sessions, session_id)
    /\ status_reply' = NoReply
    /\ UNCHANGED << tasks, order, active_session_id, pc, plan, executed_tasks,
                    ready_tasks, idx, results, result, started, ollama_calls,
                    messages, now,
                    background, job, second, submitted >>
    /\ UNCHANGED << tool_vars, parse_vars, queue_vars >>

\* GET /v1/tasks/{session_id}/status.  The request is answered in every
\* state, also in those of a running job.
get_task_status(session_id) ==
    /\ http_reply' = IF session_id \in DOMAIN active_sessions
                     THEN StatusAnswer(session_id) ELSE NotFound
    /\ status_reply' = NoReply
    /\ UNCHANGED << tasks, order, active_session_id, pc, plan, executed_tasks,
                    ready_tasks, idx, results, result, started, ollama_calls,
                    messages, now,
                    active_sessions, background, job, second, submitted >>
    /\ UNCHANGED << tool_vars, parse_vars, queue_vars >>

\* The event loop starts the next background task:
\* _process_multi_agent_task up to the first pass of the scheduler loop, or
\* to its end when the plan cannot be built.
_process_multi_agent_task(out) ==
    /\ background # << >>
    /\ ProcessGoal(out)
    /\ LET session_id == Head(background)
       IN IF pc' = "idle"
          THEN /\ active_sessions' =
                    [active_sessions EXCEPT ![session_id] =
                        Finished(Processing(@), result')]
               /\ job' = NoJob
          ELSE /\ active_sessions' =
                    [active_sessions EXCEPT ![session_id] = Processing(@)]
               /\ job' = session_id
    /\ background' = Tail(background)
    /\ http_reply' = NoHttpReply
    /\ UNCHANGED << second, submitted >>

ApiNext ==
    \/ Tick
    \/ submit_task
    \/ \E session_id \in 1 .. MaxSeconds : get_task_status(session_id)
    \/ \E out \in ApiPlannerOutputs : _process_multi_agent_task(out)
    \/ SchedulerPass
    \/ StartTask
    \/ AgentReturns
    \/ AgentRaises

ApiSpec == Init /\ [][ApiNext]_vars

\* ---------------------------------------------------------------------
\* _execute_tool_calls: one call, on the tool calls of one coder response
\* ---------------------------------------------------------------------

\* Number of tool calls in a response.
MaxCalls == 2

\* hasattr(enterprise_tools, name) for the tool functions of EnterpriseTools.
EnterpriseToolNames ==
    {"write_file", "read_file", "run_shell", "create_project",
     "install_dependencies", "git_init", "git_commit", "git_push",
     "docker_build", "docker_run", "open_vscode", "deploy_local",
     "list_files", "get_project_status"}

\* The table of _call_tool_endpoint.
tool_endpoints ==
    [write_file |-> [method |-> "POST", path |-> "/v1/tools/write-file"],
     make_dir   |-> [method |-> "POST", path |-> "/v1/tools/make-dir"],
     run_shell  |-> [method |-> "POST", path |-> "/v1/tools/run-shell"],
     open_app   |-> [method |-> "POST", path |-> "/v1/tools/open-app"],
     list_dir   |-> [method |-> "GET", path |-> "/v1/tools/list-dir"]]

\* The tool names a response uses: one known to both paths, one in-process
\* only, one with an endpoint only, one that neither path knows.
ToolNames == {"write_file", "git_commit", "make_dir", "frobnicate"}

\* One tool call of a response.  dialect legacy: TOOL_CALL:name(args);
\* dialect json: {"tool": "name", "args": {...}}.  args invalid: arguments
\* the tool function does not accept (legacy), text json.loads rejects (json).
ToolCall(d, n, a) == [dialect |-> d, name |-> n, args |-> a]

CallForms ==
    {ToolCall(d, n, a) : d \in {"legacy", "json"}, n \in ToolNames,
                         a \in {"valid", "invalid"}}

\* The responses: the tool calls of the text, in the order of the text.
Responses == UNION {[1 .. n -> CallForms] : n \in 0 .. MaxCalls}

\* re.findall for the pattern of one dialect: the positions, in the response,
\* of the calls written in that dialect, from position k on.
RECURSIVE FindAll(_, _, _)
FindAll(resp, d, k) ==
    IF k > Len(resp) THEN << >>
    ELSE IF resp[k].dialect = d
         THEN << k >> \o FindAll(resp, d, k + 1)
         ELSE FindAll(resp, d, k + 1)

\* An error text, by what it says and the tool it is about.
ToolError(k, n) == [kind |-> k, name |-> n, status |-> "", body |-> ""]

\* The text "HTTP <status>: <body>".
HttpError(status, body) == [kind |-> "HTTP", name |-> "", status |-> status, body |-> body]

NoToolError == ToolError("none", "")

\* The dict a tool function or an endpoint returns.
ToolResult(ok, e) == [present |-> TRUE, success |-> ok, error |-> e]

\* An entry of tool_results without the key "result".
NoToolResult == [present |-> FALSE, success |-> FALSE, error |-> NoToolError]

\* An entry of tool_results.  key is "function" or "tool"; call is the
\* position in the response of the call it answers (no key of the dict).
Entry(key, k, c, res, e, ok) ==
    [key |-> key, call |-> k, name |-> c.name, args |-> c.args,
     result |-> res, error |-> e, success |-> ok]

\* A record of the log dispatched.
Dispatch(k, via, target) == [call |-> k, via |-> via, target |-> target]

\* What the environment does with a tool function call: it returns a dict
\* with success true or false, or it raises.
ToolOutcomes == {"ok", "failed", "raises"}

\* What the environment does with an HTTP request: it answers with a status
\* and a body, or the transport raises.  Body ok and failed are JSON dicts
\* with success true and false; body garbled is no JSON.
HttpResponse(status, body) == [raised |-> FALSE, status |-> status, body |-> body]

TransportError == [raised |-> TRUE, status |-> "", body |-> ""]

StatusCodes == {"200", "201", "404", "500"}

HttpOutcomes ==
    {HttpResponse(st, b) : st \in StatusCodes, b \in {"ok", "failed", "garbled"}}
    \cup {TransportError}

\* No HTTP request was made.
NoHttp == [raised |-> FALSE, status |-> "", body |-> ""]

\* response.json() of a body that is JSON.
Decoded(tool_name, body) ==
    IF body = "ok" THEN ToolResult(TRUE, NoToolError)
    ELSE ToolResult(FALSE, ToolError("tool error", tool_name))

\* _call_tool_endpoint(tool_name, args) when the request ends as http says.
_call_tool_endpoint(tool_name, http) ==
    IF tool_name \notin DOMAIN tool_endpoints
    THEN ToolResult(FALSE, ToolError("Unknown tool", tool_name))
    ELSE IF http.raised
    THEN ToolResult(FALSE, ToolError("exception", tool_name))
    ELSE IF http.status = "200"
    THEN IF http.body = "garbled"
         THEN ToolResult(FALSE, ToolError("exception", tool_name))
         ELSE Decoded(tool_name, http.body)
    ELSE ToolResult(FALSE, HttpError(http.status, http.body))

\* A command-execution event of the context log.  stored: embed_and_store
\* wrote it to the vector database as well (it swallows its own failures).
Event(k, c, exit_code, stored) ==
    [call |-> k, command |-> c.name, exit_code |-> exit_code, stored |-> stored]

\* A record of the log outcomes: what became of call k.
Outcome(k, what, http) == [call |-> k, what |-> what, http |-> http]

tool_matches == FindAll(response, "legacy", 1)

json_tool_matches == FindAll(response, "json", 1)

\* A call of _execute_tool_calls starts on some response.
ToolInit ==
    /\ Constructed
    /\ response \in Responses
    /\ tool_results = << >>
    /\ tpc = "legacy"
    /\ tk = 1
    /\ dispatched = << >>
    /\ context_log = << >>
    /\ outcomes = << >>
    /\ ParseOff

\* One iteration of the loop over tool_matches.
ExecuteLegacyCall(outcome, stored) ==
    /\ tpc = "legacy"
    /\ tk <= Len(tool_matches)
    /\ LET k == tool_matches[tk]
           c == response[k]
           returns == c.args = "valid" /\ outcome \in {"ok", "failed"}
       IN IF c.name \in EnterpriseToolNames
          THEN /\ dispatched' = Append(dispatched, Dispatch(k, "in_process", c.name))
               /\ outcomes' = Append(outcomes,
                     Outcome(k, IF c.args = "invalid" THEN "bad_args" ELSE outcome,
                             NoHttp))
               /\ context_log' =
                     IF returns
                     THEN Append(context_log,
                                 Event(k, c, IF outcome = "ok" THEN 0 ELSE 1, stored))
                     ELSE context_log
               /\ tool_results' = Append(tool_results,
                     IF ~returns
                     THEN Entry("function", k, c, NoToolResult,
                                ToolError("exception", c.name), FALSE)
                     ELSE IF outcome = "ok"
                     THEN Entry("function", k, c, ToolResult(TRUE, NoToolError),
                                NoToolError, TRUE)
                     ELSE Entry("function", k, c,
                                ToolResult(FALSE, ToolError("tool error", c.name)),
                                NoToolError, FALSE))
          ELSE /\ outcomes' = Append(outcomes, Outcome(k, "no_attribute", NoHttp))
               /\ UNCHANGED << tool_results, dispatched, context_log >>
    /\ tk' = tk + 1
    /\ UNCHANGED << response, tpc, orchestrator_vars, parse_vars,
                    queue_vars >>

\* The loop over tool_matches is over; json_tool_matches is computed.
StartJsonLoop ==
    /\ tpc = "legacy"
    /\ tk > Len(tool_matches)
    /\ tpc' = "json"
    /\ tk' = 1
    /\ UNCHANGED << response, tool_results, dispatched, context_log, outcomes,
                    orchestrator_vars, parse_vars,
                    queue_vars >>

\* One iteration of the loop over json_tool_matches.
ExecuteJsonCall(http) ==
    /\ tpc = "json"
    /\ tk <= Len(json_tool_matches)
    /\ LET k == json_tool_matches[tk]
           c == response[k]
           res == _call_tool_endpoint(c.name, http)
       IN IF c.args = "invalid"
          THEN /\ tool_results' = Append(tool_results,
                     Entry("tool", k, c, NoToolResult,
                           ToolError("exception", c.name), FALSE))
               /\ outcomes' = Append(outcomes, Outcome(k, "bad_args", NoHttp))
               /\ UNCHANGED dispatched
          ELSE /\ tool_results' = Append(tool_results,
                     Entry("tool", k, c, res, NoToolError, res.success))
               /\ IF c.name \in DOMAIN tool_endpoints
                  THEN /\ dispatched' =
                            Append(dispatched,
                                   Dispatch(k, "endpoint", tool_endpoints[c.name].path))
                       /\ outcomes' = Append(outcomes, Outcome(k, "request", http))
                  ELSE /\ outcomes' = Append(outcomes, Outcome(k, "no_endpoint", NoHttp))
                       /\ UNCHANGED dispatched
    /\ tk' = tk + 1
    /\ UNCHANGED << response, tpc, context_log, orchestrator_vars, parse_vars,
                    queue_vars >>

\* return tool_results
ReturnToolResults ==
    /\ tpc = "json"
    /\ tk > Len(json_tool_matches)
    /\ tpc' = "done"
    /\ UNCHANGED << response, tool_results, tk, dispatched, context_log,
                    outcomes, orchestrator_vars, parse_vars,
                    queue_vars >>

ToolNext ==
    \/ \E outcome \in ToolOutcomes, stored \in BOOLEAN :
           ExecuteLegacyCall(outcome, stored)
    \/ StartJsonLoop
    \/ \E http \in HttpOutcomes : ExecuteJsonCall(http)
    \/ ReturnToolResults

ToolSpec == ToolInit /\ [][ToolNext]_vars

TypeOK ==
    /\ DOMAIN tasks \subseteq TaskIds
    /\ \A i \in DOMAIN tasks : tasks[i].status \in TaskStatus /\ tasks[i].id = i
    /\ pc \in {"idle", "loop", "for", "await"}
    /\ active_session_id \in NoSession .. MaxSessions
    /\ \A i \in DOMAIN tasks : tasks[i].updated_at \in 1 .. now
    /\ messages = << >>
    /\ tpc \in {"off", "legacy", "json", "done"}
    /\ response \in Responses
    /\ Len(tool_results) <= Len(response)
    /\ Len(dispatched) <= Len(response)

\* ---------------------------------------------------------------------
\* Parsing: the text functions of multi_agent.py
\* ---------------------------------------------------------------------
\* A text is a sequence of tokens.  A token is a piece of text that the
\* patterns and the splitting treat as a whole: a word (one or more \w
\* characters with no separator inside), or one separator character.

\* The largest number of tokens in the value of a legacy argument.
MaxValueLen == 2

Quote == "\""

Whitespace == {" ", "\n"}

\* The words of the texts: tool names, argument names, other words.
Words == ToolNames \cup {"run_shell", "path", "content", "x", "json"}

\* Every token of the texts.
Tokens ==
    Words \cup Whitespace
    \cup {"TOOL_CALL:", "(", ")", ",", "=", Quote, "{", "}", "[", "]", "s",
          "tool:", "args:", "fence"}

\* The index of the first token of txt in S at or after from; 0 if none
\* (str.find, and the place where a lazy or a negated-class match stops).
First(txt, S, from) ==
    IF \E j \in from .. Len(txt) : txt[j] \in S
    THEN CHOOSE j \in from .. Len(txt) :
             /\ txt[j] \in S
             /\ \A l \in from .. (j - 1) : txt[l] \notin S
    ELSE 0

\* The index of the first token at or after from that is not whitespace
\* (where a \s* of a pattern ends); 0 if none.
SkipSpace(txt, from) == First(txt, Tokens \ Whitespace, from)

\* The index of the last token of txt in S; 0 if none (str.rfind).
Last(txt, S) ==
    IF \E j \in 1 .. Len(txt) : txt[j] \in S
    THEN CHOOSE j \in 1 .. Len(txt) :
             /\ txt[j] \in S
             /\ \A l \in (j + 1) .. Len(txt) : txt[l] \notin S
    ELSE 0

\* str.split(sep)
RECURSIVE Split(_, _)
Split(txt, sep) ==
    LET j == First(txt, {sep}, 1)
    IN IF j = 0 THEN << txt >>
       ELSE << SubSeq(txt, 1, j - 1) >>
            \o Split(SubSeq(txt, j + 1, Len(txt)), sep)

\* str.strip(S)
Strip(txt, S) ==
    LET keep == {j \in 1 .. Len(txt) : txt[j] \notin S}
    IN IF keep = {} THEN << >>
       ELSE SubSeq(txt, CHOOSE a \in keep : \A b \in keep : a <= b,
                        CHOOSE a \in keep : \A b \in keep : a >= b)

\* re.findall(tool_pattern, txt) from token i on, the pattern being
\* TOOL_CALL:(\w+)\((.*?)\): the name is the word after TOOL_CALL:, the
\* parameters are what stands between the "(" and the first ")" after it.
RECURSIVE tool_pattern(_, _)
tool_pattern(txt, i) ==
    IF i > Len(txt) THEN << >>
    ELSE IF /\ txt[i] = "TOOL_CALL:"
            /\ i + 2 <= Len(txt)
            /\ txt[i + 1] \in Words
            /\ txt[i + 2] = "("
            /\ First(txt, {")"}, i + 3) # 0
         THEN LET j == First(txt, {")"}, i + 3)
              IN << [name |-> txt[i + 1],
                     params_str |-> SubSeq(txt, i + 3, j - 1)] >>
                 \o tool_pattern(txt, j + 1)
         ELSE tool_pattern(txt, i + 1)

\* The pair (key, value) _parse_tool_params takes from one part that
\* contains "=".
KeyValue(part) ==
    LET eq == First(part, {"="}, 1)
    IN << Strip(Strip(SubSeq(part, 1, eq - 1), Whitespace), {Quote}),
          Strip(Strip(SubSeq(part, eq + 1, Len(part)), Whitespace),
                {Quote}) >>

\* _parse_tool_params: the dict as its set of (key, value) pairs; of two
\* parts with one key the later one stays.
_parse_tool_params(params_str) ==
    IF Strip(params_str, Whitespace) = << >> THEN {}
    ELSE LET parts == Split(params_str, ",")
             HasEq(i) == First(parts[i], {"="}, 1) # 0
             Stays(i) ==
                 /\ HasEq(i)
                 /\ \A j \in (i + 1) .. Len(parts) :
                        HasEq(j) => KeyValue(parts[j])[1] # KeyValue(parts[i])[1]
         IN {KeyValue(parts[i]) : i \in {j \in 1 .. Len(parts) : Stays(j)}}

\* The value of one argument of a legacy call as the text gives it: its
\* tokens, in quotes or not.
Value(quoted, chars) == [quoted |-> quoted, chars |-> chars]

\* Token sequences of length 1 .. n over S.
SeqsUpTo(S, n) == UNION {[1 .. l -> S] : l \in 1 .. n}

\* The values of the legacy calls under test: a bare value is made of
\* words (and may hold "="); a value in quotes may hold "," and ")".
Values ==
    {Value(FALSE, c) : c \in {<< "x" >>, << "x", "=", "x" >>}}
    \cup {Value(TRUE, c) : c \in SeqsUpTo({"x", ",", ")"}, MaxValueLen)}

RenderValue(v) ==
    IF v.quoted THEN << Quote >> \o v.chars \o << Quote >> ELSE v.chars

\* A response with one legacy call: x TOOL_CALL:name(path=v1, content=v2) x
LegacyText(name, v1, v2) ==
    << "x", " ", "TOOL_CALL:", name, "(", "path", "=" >> \o RenderValue(v1)
    \o << ",", " ", "content", "=" >> \o RenderValue(v2)
    \o << ")", " ", "x" >>

LegacyGivens ==
    {[kind |-> "legacy", name |-> n, v1 |-> v1, v2 |-> v2] :
        n \in {"write_file", "frobnicate"}, v1 \in Values, v2 \in Values}

\* The legacy loop of _execute_tool_calls as far as the text decides it:
\* the calls found, with their parsed parameters, and the number of
\* entries of tool_results, one for each call whose name is an attribute
\* of EnterpriseTools.
LegacyCalls(txt) ==
    LET m == tool_pattern(txt, 1)
    IN [kind |-> "legacy",
        calls |-> [j \in 1 .. Len(m) |->
                      [name |-> m[j].name,
                       params |-> _parse_tool_params(m[j].params_str)]],
        entries |-> Cardinality({j \in 1 .. Len(m) :
                                    m[j].name \in EnterpriseToolNames})]

\* A JSON value: an object or an array with some scalar members (numbers,
\* strings, keys: the tokens "s") followed by members that are objects or
\* arrays themselves.
Node(kind, scalars, children) ==
    [kind |-> kind, scalars |-> scalars, children |-> children]

NoNode == Node("none", 0, << >>)

Open(kind) == IF kind = "object" THEN "{" ELSE "["

Close(kind) == IF kind = "object" THEN "}" ELSE "]"

\* json.dumps: the text of a JSON value.
RECURSIVE Render(_)
RECURSIVE RenderAll(_)
Render(v) ==
    << Open(v.kind) >> \o [j \in 1 .. v.scalars |-> "s"]
    \o RenderAll(v.children) \o << Close(v.kind) >>

RenderAll(vs) ==
    IF vs = << >> THEN << >>
    ELSE IF Len(vs) = 1 THEN Render(vs[1])
    ELSE Render(vs[1]) \o << "," >> \o RenderAll(Tail(vs))

ParseFail == [ok |-> FALSE, node |-> NoNode, rest |-> << >>]

\* The JSON decoder: the value that starts the text and the text left
\* after it, or a failure.
RECURSIVE ParseValue(_)
RECURSIVE ParseMembers(_, _)
ParseValue(txt) ==
    IF txt = << >> \/ txt[1] \notin {"{", "["} THEN ParseFail
    ELSE LET kind == IF txt[1] = "{" THEN "object" ELSE "array"
             other == First(txt, Tokens \ {"s"}, 2)
         IN IF other = 0 THEN ParseFail
            ELSE ParseMembers(SubSeq(txt, other, Len(txt)),
                              Node(kind, other - 2, << >>))

ParseMembers(txt, node) ==
    IF txt = << >> THEN ParseFail
    ELSE IF txt[1] = Close(node.kind)
         THEN [ok |-> TRUE, node |-> node, rest |-> Tail(txt)]
    ELSE IF node.children # << >> /\ txt[1] # "," THEN ParseFail
    ELSE LET c == ParseValue(IF node.children # << >> THEN Tail(txt)
                             ELSE txt)
         IN IF ~c.ok THEN ParseFail
            ELSE ParseMembers(c.rest,
                     [node EXCEPT !.children = Append(@, c.node)])

\* json.loads(txt): the value when the whole text is one JSON value, a
\* failure (json.JSONDecodeError) otherwise.
json_loads(txt) ==
    LET p == ParseValue(Strip(txt, Whitespace))
    IN IF p.ok /\ p.rest = << >> THEN [ok |-> TRUE, node |-> p.node]
       ELSE [ok |-> FALSE, node |-> NoNode]

\* JSON values of the texts under test.
Obj0 == Node("object", 1, << >>)

Obj1 == Node("object", 1, << Obj0 >>)

Obj2 == Node("object", 0, << Obj1 >>)

Arr1 == Node("array", 0, << Obj0 >>)

Arr2 == Node("array", 0, << Obj0, Obj0 >>)

PlanObj == Node("object", 1, << Arr2 >>)

Objects == {Node("object", 0, << >>), Obj0, Obj1, Obj2, PlanObj,
            Node("object", 1, << Obj0, Obj0 >>)}

Arrays == {Node("array", 0, << >>), Node("array", 1, << >>), Arr1, Arr2,
           Node("array", 0, << Obj1 >>)}

\* re.findall(json_tool_pattern, txt) from token i on, the pattern being
\* \{"tool":\s*"([^"]+)",\s*"args":\s*(\{[^}]*\})\}: the args text runs from
\* its "{" to the first "}" after it, and the "}" of the fragment has to
\* follow at once.
RECURSIVE json_tool_pattern(_, _)
json_tool_pattern(txt, i) ==
    IF i > Len(txt) THEN << >>
    ELSE LET name == SkipSpace(txt, i + 2)
             args == IF name = 0 THEN 0 ELSE SkipSpace(txt, name + 2)
             open == IF args = 0 THEN 0 ELSE SkipSpace(txt, args + 1)
             close == IF open = 0 THEN 0 ELSE First(txt, {"}"}, open + 1)
         IN IF /\ i + 1 <= Len(txt)
               /\ txt[i] = "{" /\ txt[i + 1] = "tool:"
               /\ name # 0 /\ txt[name] \in Words
               /\ name + 1 <= Len(txt) /\ txt[name + 1] = ","
               /\ args # 0 /\ txt[args] = "args:"
               /\ open # 0 /\ txt[open] = "{"
               /\ close # 0
               /\ close + 1 <= Len(txt) /\ txt[close + 1] = "}"
            THEN << [name |-> txt[name],
                     args_str |-> SubSeq(txt, open, close)] >>
                 \o json_tool_pattern(txt, close + 2)
            ELSE json_tool_pattern(txt, i + 1)

\* A response with one structured call, alone or inside other text:
\* {"tool": "name", "args": <args>}.  The word after tool: stands for the
\* name in its quotes.
JsonText(name, args, embedded) ==
    (IF embedded THEN << "x", " " >> ELSE << >>)
    \o << "{", "tool:", " ", name, ",", " ", "args:", " " >> \o Render(args)
    \o << "}" >> \o (IF embedded THEN << " ", "x" >> ELSE << >>)

JsonGivens ==
    {[kind |-> "json", name |-> n, args |-> a, embedded |-> e] :
        n \in {"run_shell", "frobnicate"}, a \in Objects, e \in BOOLEAN}

\* The structured loop of _execute_tool_calls as far as the text decides
\* it: the calls found and what json.loads makes of their args.
JsonCalls(txt) ==
    LET m == json_tool_pattern(txt, 1)
    IN [kind |-> "json",
        calls |-> [j \in 1 .. Len(m) |->
                      [name |-> m[j].name,
                       ok |-> json_loads(m[j].args_str).ok,
                       args |-> json_loads(m[j].args_str).node]]]

\* The number of characters of the text that the exception of
\* _extract_json carries.
ExcerptLen == 200

\* The first match of json_pattern in the text, the pattern being
\* fence(?:json)?\s*(\{.*?\})\s*fence with re.DOTALL, fence being three
\* backquotes: after a fence and an optional "json", from a "{" to the
\* first "}" that a fence follows.
json_pattern(txt) ==
    LET OpenOf(i) == SkipSpace(txt, IF i + 1 <= Len(txt) /\ txt[i + 1] = "json"
                                  THEN i + 2 ELSE i + 1)
        Closes(c) ==
            /\ txt[c] = "}"
            /\ SkipSpace(txt, c + 1) # 0
            /\ txt[SkipSpace(txt, c + 1)] = "fence"
        Matches(i) ==
            /\ txt[i] = "fence"
            /\ OpenOf(i) # 0 /\ txt[OpenOf(i)] = "{"
            /\ \E c \in (OpenOf(i) + 1) .. Len(txt) : Closes(c)
    IN IF \E i \in 1 .. Len(txt) : Matches(i)
       THEN LET i == CHOOSE i \in 1 .. Len(txt) :
                         Matches(i) /\ \A l \in 1 .. (i - 1) : ~Matches(l)
                c == CHOOSE c \in (OpenOf(i) + 1) .. Len(txt) :
                         /\ Closes(c)
                         /\ \A d \in (OpenOf(i) + 1) .. (c - 1) : ~Closes(d)
            IN [found |-> TRUE, str |-> SubSeq(txt, OpenOf(i), c)]
       ELSE [found |-> FALSE, str |-> << >>]

Returned(node) == [ok |-> TRUE, value |-> node, excerpt |-> << >>]

\* raise Exception(f"No valid JSON found in response: {text[:200]}...")
NoValidJson(txt) ==
    [ok |-> FALSE, value |-> NoNode,
     excerpt |-> SubSeq(txt, 1, IF Len(txt) < ExcerptLen THEN Len(txt)
                                ELSE ExcerptLen)]

_extract_json(txt) ==
    LET m == json_pattern(txt)
        fenced == IF m.found THEN json_loads(m.str)
                  ELSE [ok |-> FALSE, node |-> NoNode]
        start == First(txt, {"{"}, 1)
        end == Last(txt, {"}"})
        direct == IF start # 0 /\ end >= start
                  THEN json_loads(SubSeq(txt, start, end))
                  ELSE [ok |-> FALSE, node |-> NoNode]
    IN IF fenced.ok THEN Returned(fenced.node)
       ELSE IF direct.ok THEN Returned(direct.node)
       ELSE NoValidJson(txt)

Fence(v, tag) ==
    << "fence" >> \o (IF tag THEN << "json" >> ELSE << >>) \o << "\n" >>
    \o Render(v) \o << "\n", "fence" >>

\* The texts handed to _extract_json: prose around one fenced JSON value,
\* around two fenced objects, or prose alone.
PlanText(g) ==
    IF g.kind = "fenced"
    THEN << "x", "\n" >> \o Fence(g.value, g.tag) \o << "\n", "x" >>
    ELSE IF g.kind = "two_fenced"
    THEN << "x", "\n" >> \o Fence(g.value, g.tag) \o << "\n", "x", "\n" >>
         \o Fence(g.second, g.tag)
    ELSE [j \in 1 .. g.length |-> "x"]

PlanGivens ==
    {[kind |-> "fenced", value |-> v, tag |-> t] :
        v \in Objects \cup Arrays, t \in BOOLEAN}
    \cup {[kind |-> "two_fenced", value |-> v, second |-> w, tag |-> TRUE] :
             v \in Objects, w \in {Obj0, Obj1}}
    \cup {[kind |-> "plain", length |-> n] :
             n \in {0, 1, ExcerptLen, ExcerptLen + 1}}

\* The text written from what is given.
TextOf(g) ==
    IF g.kind = "legacy" THEN LegacyText(g.name, g.v1, g.v2)
    ELSE IF g.kind = "json" THEN JsonText(g.name, g.args, g.embedded)
    ELSE PlanText(g)

\* One call of a parsing function on one text.
ParseInit ==
    /\ Constructed
    /\ response = << >>
    /\ tool_results = << >>
    /\ tpc = "off"
    /\ tk = 0
    /\ dispatched = << >>
    /\ context_log = << >>
    /\ outcomes = << >>
    /\ given \in LegacyGivens \cup JsonGivens \cup PlanGivens
    /\ text = TextOf(given)
    /\ parsed = [kind |-> "none"]
    /\ ppc = "input"

\* multi_agent.py:389-393: the legacy calls of the response are found and
\* their parameters parsed.
ParseLegacyCalls ==
    /\ ppc = "input"
    /\ given.kind = "legacy"
    /\ parsed' = LegacyCalls(text)
    /\ ppc' = "done"
    /\ UNCHANGED << given, text, orchestrator_vars, tool_vars, queue_vars >>

\* multi_agent.py:428-435: the structured calls of the response are found
\* and their args decoded.
ParseJsonCalls ==
    /\ ppc = "input"
    /\ given.kind = "json"
    /\ parsed' = JsonCalls(text)
    /\ ppc' = "done"
    /\ UNCHANGED << given, text, orchestrator_vars, tool_vars, queue_vars >>

\* multi_agent.py:179: the planner's response goes through _extract_json.
ExtractPlan ==
    /\ ppc = "input"
    /\ given.kind \in {"fenced", "two_fenced", "plain"}
    /\ parsed' = [kind |-> "plan"] @@ _extract_json(text)
    /\ ppc' = "done"
    /\ UNCHANGED << given, text, orchestrator_vars, tool_vars, queue_vars >>

ParseNext ==
    \/ ParseLegacyCalls
    \/ ParseJsonCalls
    \/ ExtractPlan

ParseSpec == ParseInit /\ [][ParseNext]_vars

\* ---------------------------------------------------------------------
\* backend/screenshot_queue.py
\* ---------------------------------------------------------------------

\* Length the main queue is cut back to after an append.
QueueLimit == 10

\* Number of screenshots taken.
MaxScreenshots == 11

\* Number of delete, move-to-extra and clear requests made.
MaxQueueRequests == 3

\* The ids a request may name: the issued ones, ids not yet issued and the
\* id no screenshot has.
ScreenshotIds == UnknownId .. MaxScreenshots

\* The item of a screenshot.  Ids are issued in the order the screenshots
\* are taken, so the id of an item is also its place in the order of arrival.
ScreenshotItem(id) == [id |-> id]

\* An answer that carries no queue.
QueueAnswer(code, kind, id) ==
    [status_code |-> code, kind |-> kind, id |-> id, queue |-> << >>,
     extra_queue |-> << >>, total_count |-> 0]

\* The answer of GET /queue.
QueueResponse(q, extra) ==
    [status_code |-> 200, kind |-> "queue", id |-> UnknownId, queue |-> q,
     extra_queue |-> extra, total_count |-> Len(q) + Len(extra)]

\* An append that never removes.
Enqueue_NoLimit(q, item) == Append(q, item)

\* append, then pop(0) when the list has grown beyond the limit.
Enqueue(q, item) ==
    LET appended == Append(q, item)
    IN  IF Len(appended) > QueueLimit THEN Tail(appended) ELSE appended

\* [item for item in q if item.id != id]
Without(q, id) == SelectSeq(q, LAMBDA item : item.id # id)

\* A pop that leaves the list as it is.
Pop_Keeps(q, i) == q

\* q after q.pop(i), for i a position of q counted from 1.
Pop(q, i) == SubSeq(q, 1, i - 1) \o SubSeq(q, i + 1, Len(q))

\* The positions of q whose item has the id.
Positions(q, id) == {i \in 1 .. Len(q) : q[i].id = id}

\* POST /screenshot.  ok is FALSE when screenshot() raises; failures of OCR,
\* of the analysis and of the memory store are swallowed and change nothing
\* of the queues.
take_screenshot_api(ok) ==
    /\ issued < MaxScreenshots
    /\ IF ok
       THEN /\ issued' = issued + 1
            /\ screenshot_queue' =
                   Enqueue(screenshot_queue, ScreenshotItem(issued'))
            /\ queue_reply' = QueueAnswer(200, "screenshot", issued')
       ELSE /\ queue_reply' = QueueAnswer(500, "error", UnknownId)
            /\ UNCHANGED << issued, screenshot_queue >>
    /\ UNCHANGED << extra_screenshot_queue, queue_requests >>
    /\ UNCHANGED << orchestrator_vars, tool_vars, parse_vars >>

\* GET /queue.
get_screenshot_queue ==
    /\ queue_reply' = QueueResponse(screenshot_queue, extra_screenshot_queue)
    /\ UNCHANGED << screenshot_queue, extra_screenshot_queue, issued,
                    queue_requests >>
    /\ UNCHANGED << orchestrator_vars, tool_vars, parse_vars >>

\* DELETE /queue/{screenshot_id}.
delete_screenshot(screenshot_id) ==
    /\ queue_requests < MaxQueueRequests
    /\ queue_requests' = queue_requests + 1
    /\ screenshot_queue' = Without(screenshot_queue, screenshot_id)
    /\ extra_screenshot_queue' = Without(extra_screenshot_queue, screenshot_id)
    /\ queue_reply' = QueueAnswer(200, "deleted", screenshot_id)
    /\ UNCHANGED issued
    /\ UNCHANGED << orchestrator_vars, tool_vars, parse_vars >>

\* POST /queue/clear.
clear_queue ==
    /\ queue_requests < MaxQueueRequests
    /\ queue_requests' = queue_requests + 1
    /\ screenshot_queue' = << >>
    /\ extra_screenshot_queue' = << >>
    /\ queue_reply' = QueueAnswer(200, "cleared", UnknownId)
    /\ UNCHANGED issued
    /\ UNCHANGED << orchestrator_vars, tool_vars, parse_vars >>

\* POST /queue/{screenshot_id}/move-to-extra.
move_to_extra_queue(screenshot_id) ==
    /\ queue_requests < MaxQueueRequests
    /\ queue_requests' = queue_requests + 1
    /\ LET found == Positions(screenshot_queue, screenshot_id)
       IN  IF found # {}
           THEN LET i == CHOOSE k \in found : \A j \in found : k <= j
                IN  /\ screenshot_queue' = Pop(screenshot_queue, i)
                    /\ extra_screenshot_queue' =
                           Append(extra_screenshot_queue, screenshot_queue[i])
                    /\ queue_reply' = QueueAnswer(200, "moved", screenshot_id)
           ELSE /\ queue_reply' = QueueAnswer(404, "not_found", screenshot_id)
                /\ UNCHANGED << screenshot_queue, extra_screenshot_queue >>
    /\ UNCHANGED issued
    /\ UNCHANGED << orchestrator_vars, tool_vars, parse_vars >>

QueueNext ==
    \/ \E ok \in BOOLEAN : take_screenshot_api(ok)
    \/ get_screenshot_queue
    \/ \E screenshot_id \in ScreenshotIds : delete_screenshot(screenshot_id)
    \/ clear_queue
    \/ \E screenshot_id \in ScreenshotIds : move_to_extra_queue(screenshot_id)

QueueSpec == Init /\ [][QueueNext]_vars

\* ---------------------------------------------------------------------
\* Notions the properties are stated in
\* ---------------------------------------------------------------------

\* The ids reached from the ids in S by at most n dependency edges.
RECURSIVE Reachable(_, _, _)
Reachable(ts, S, n) ==
    IF n = 0 THEN S
    ELSE Reachable(ts, S \cup UNION {ts[i].dependencies : i \in S \cap DOMAIN ts}, n - 1)

\* No task of the graph depends on itself, directly or transitively.
Acyclic(ts) ==
    \A i \in DOMAIN ts :
        i \notin Reachable(ts, ts[i].dependencies, Cardinality(DOMAIN ts))

\* Some subtask of the plan lists a dependency id that no subtask of the plan has.
HasDanglingDependency(subtasks) ==
    \E k \in 1 .. Len(subtasks) :
        \E d \in subtasks[k].dependencies :
            \A j \in 1 .. Len(subtasks) : subtasks[j].id # d

\* The ids of the tasks that have the given status.
WithStatus(st) == {i \in DOMAIN tasks : tasks[i].status = st}

\* The running (or last) call of process_goal got through _call_planner and
\* entered the scheduler loop.
LoopEntered == active_session_id # NoSession /\ result.error.kind \notin {"planner_failed", "ollama"}

\* The scheduler loop of the last call has ended (by return, break or raise).
LoopEnded == pc = "idle" /\ LoopEntered

\* ---------------------------------------------------------------------
\* C1
\* ---------------------------------------------------------------------

\* C1: in no reachable state is a task in_progress or completed while one of
\* the ids in its dependencies names a task that is not completed (or no task).
C1_DependenciesCompleted ==
    \A i \in DOMAIN tasks :
        tasks[i].status \in {"in_progress", "completed"} =>
            \A d \in tasks[i].dependencies :
                d \in DOMAIN tasks /\ tasks[d].status = "completed"

\* ---------------------------------------------------------------------
\* C2
\* ---------------------------------------------------------------------

\* C2 as stated, already for the first call on a new orchestrator and a plan
\* whose dependency ids all exist: when the scheduler loop has ended on a
\* graph without dependency cycles, every task of the graph is completed or
\* failed.
C2_AllTerminalWhenEnded ==
    (LoopEnded /\ active_session_id = 1 /\ ~HasDanglingDependency(plan) /\ Acyclic(tasks)) =>
        \A i \in DOMAIN tasks : tasks[i].status \in {"completed", "failed"}

\* C2 as amended: on a graph without dependency cycles the scheduler loop
\* terminates, and when it has ended no task is in_progress: every task the
\* loop dispatched is completed or failed, the others are as they were.
C2_TerminatesNoneInProgress ==
    /\ (pc # "idle" /\ Acyclic(tasks)) ~> (pc = "idle")
    /\ [](LoopEnded /\ Acyclic(tasks) =>
            /\ WithStatus("in_progress") = {}
            /\ \A k \in 1 .. Len(started) :
                   tasks[started[k]].status \in {"completed", "failed"})

\* An acyclic graph on which the loop ended with a failed task and a task
\* that was never dispatched.
C2_Witness ==
    /\ LoopEnded /\ Acyclic(tasks)
    /\ result.error.kind = "task_failed"
    /\ WithStatus("pending") # {}
    /\ WithStatus("completed") # {}

\* ---------------------------------------------------------------------
\* C3
\* ---------------------------------------------------------------------

\* The pass about to run finds no ready task while pending tasks remain.
StuckPass ==
    /\ pc = "loop"
    /\ Cardinality(executed_tasks) < Len(plan)
    /\ WithStatus("pending") # {}
    /\ \A i \in WithStatus("pending") : ~(tasks[i].dependencies \subseteq executed_tasks)

\* C3: a scheduler pass that finds no ready task while pending tasks remain
\* ends the call at once: the stuck error names every pending task id and
\* nothing else, the session result is failed, no further pass runs.
C3_StuckRaises ==
    [][ (StuckPass /\ pc' # pc) =>
            /\ pc' = "idle"
            /\ result'.status = "failed"
            /\ result'.session_id = active_session_id
            /\ result'.error.kind = "stuck"
            /\ {result'.error.ids[k] : k \in 1 .. Len(result'.error.ids)}
                   = WithStatus("pending")
            /\ tasks' = tasks /\ started' = started ]_vars

\* The 2-cycle: the call ended with the stuck error naming A and B.
C3_Witness ==
    /\ plan = Cycle2
    /\ pc = "idle"
    /\ result.status = "failed"
    /\ result.error.kind = "stuck"
    /\ result.error.ids = << "A", "B" >>

\* ---------------------------------------------------------------------
\* C4
\* ---------------------------------------------------------------------

\* s is an initial segment of t.
IsPrefix(s, t) == Len(s) <= Len(t) /\ \A k \in 1 .. Len(s) : s[k] = t[k]

\* C4: in a call whose plan is A, B (after A), C (after A and B) and in which
\* no dispatch fails, the tasks moved to in_progress are A, B, C in that order,
\* B and C only once A is completed, and at the end all three are completed.
C4_Plan3InOrder ==
    (plan = Plan3 /\ result.error.kind # "task_failed") =>
        /\ IsPrefix(started, << "A", "B", "C" >>)
        /\ (Len(started) >= 2 => tasks["A"].status = "completed")
        /\ (pc = "idle" =>
              /\ started = << "A", "B", "C" >>
              /\ \A i \in {"A", "B", "C"} : tasks[i].status = "completed")

\* ---------------------------------------------------------------------
\* C5
\* ---------------------------------------------------------------------

\* The dispatch of task i raised in this step: the except branch recorded
\* the message on the task.
DispatchRaised(i) ==
    /\ i \in DOMAIN tasks /\ i \in DOMAIN tasks'
    /\ tasks[i].session = tasks'[i].session
    /\ tasks[i].error_message = None
    /\ tasks'[i].error_message # None

\* C5: when the dispatch of a task raises, the task is failed with the
\* message recorded, the call returns a failure that names the task id and
\* carries the tasks, and that call moves no further task to in_progress.
C5_TaskFailureIsFatal ==
    /\ [][ \A i \in TaskIds : DispatchRaised(i) =>
              /\ tasks'[i].status = "failed"
              /\ tasks'[i].error_message \in {"Failed to call Ollama", "Unknown agent type"}
              /\ pc' = "idle"
              /\ result'.status = "failed"
              /\ result'.session_id = active_session_id
              /\ result'.error.kind = "task_failed"
              /\ result'.error.ids = << i >>
              /\ result'.error.cause = tasks'[i].error_message
              /\ Len(result'.tasks) = Len(order)
              /\ \A k \in 1 .. Len(order) : result'.tasks[k] = tasks'[order[k]] ]_vars
    /\ []( (result.error.kind = "task_failed" /\ result.session_id = active_session_id) =>
              /\ pc = "idle"
              /\ started # << >>
              /\ started[Len(started)] = result.error.ids[1]
              /\ WithStatus("in_progress") = {} )

\* A task failed on a backend error while another task was still pending.
C5_Witness ==
    /\ result.error.kind = "task_failed"
    /\ \E i \in WithStatus("failed") :
          /\ result.error.ids = << i >>
          /\ tasks[i].error_message = "Failed to call Ollama"
    /\ WithStatus("pending") # {}

\* ---------------------------------------------------------------------
\* C6
\* ---------------------------------------------------------------------

\* C6: a call of process_goal moves to in_progress only tasks built from its
\* own plan, and a stuck error names only tasks of the call that raised it.
C6_SessionsShareNoTasks ==
    /\ \A i \in WithStatus("in_progress") : tasks[i].session = active_session_id
    /\ \A k \in 1 .. Len(started) : tasks[started[k]].session = active_session_id
    /\ result.error.kind = "stuck" =>
          \A k \in 1 .. Len(result.error.ids) :
              tasks[result.error.ids[k]].session = result.session_id

\* ---------------------------------------------------------------------
\* C7
\* ---------------------------------------------------------------------

\* The ids of the tasks built by call sid, in dict order.
RECURSIVE TasksOf(_, _)
TasksOf(sid, ord) ==
    IF ord = << >> THEN << >>
    ELSE IF tasks[Head(ord)].session = sid
         THEN << Head(ord) >> \o TasksOf(sid, Tail(ord))
         ELSE TasksOf(sid, Tail(ord))

\* C7: the reply of get_session_status(sid) lists the tasks of session sid
\* only, and its overall progress is the mean over those tasks.  Stated for
\* the replies given while no call of process_goal is running.
C7_StatusOfOneSession ==
    (status_reply.asked /\ pc = "idle") =>
        /\ \A k \in 1 .. Len(status_reply.tasks) :
               tasks[status_reply.tasks[k].id].session = status_reply.session_id
        /\ status_reply.overall_progress =
               _calculate_overall_progress(tasks, TasksOf(status_reply.session_id, order))

\* ---------------------------------------------------------------------
\* C8
\* ---------------------------------------------------------------------

\* C8: when _call_planner fails, the graph holds no task of that plan.
C8_PlanAllOrNothing ==
    (pc = "idle" /\ result.error.kind \in {"planner_failed", "ollama"}) =>
        \A i \in DOMAIN tasks : tasks[i].session # result.session_id

\* ---------------------------------------------------------------------
\* C9
\* ---------------------------------------------------------------------

\* C9: no task of a plan with a dependency id absent from the plan is ever
\* moved to in_progress: every task of that plan stays pending.
C9_DanglingPlanRejected ==
    HasDanglingDependency(plan) =>
        \A i \in DOMAIN tasks :
            tasks[i].session = active_session_id => tasks[i].status = "pending"

\* ---------------------------------------------------------------------
\* C10
\* ---------------------------------------------------------------------

\* The status changes a Task object may make.
AllowedTransitions ==
    { << "pending", "in_progress" >>, << "in_progress", "completed" >>,
      << "in_progress", "failed" >>, << "failed", "completed" >> }

\* C10: a Task object starts as pending, every change of its status is an
\* allowed transition, and no task has status needs_revision.  An entry of
\* self.tasks whose session differs from before is a new Task object.
C10_StatusTransitions ==
    [][ \A i \in DOMAIN tasks' :
            /\ tasks'[i].status # "needs_revision"
            /\ IF i \in DOMAIN tasks /\ tasks[i].session = tasks'[i].session
               THEN \/ tasks'[i].status = tasks[i].status
                    \/ << tasks[i].status, tasks'[i].status >> \in AllowedTransitions
               ELSE tasks'[i].status = "pending" ]_vars

\* Tasks of one graph have gone pending -> in_progress -> completed and
\* pending -> in_progress -> failed, while another is still pending.
C10_Witness ==
    /\ WithStatus("completed") # {}
    /\ WithStatus("failed") # {}
    /\ WithStatus("pending") # {}
    /\ WithStatus("in_progress") # {}

\* ---------------------------------------------------------------------
\* C11
\* ---------------------------------------------------------------------

\* C11: in every reachable state a task whose error_message is not None has
\* status failed.
C11_ErrorOnlyWhenFailed ==
    \A i \in DOMAIN tasks :
        tasks[i].error_message # None => tasks[i].status = "failed"

\* A failed task carries its message next to a completed task without one.
C11_Witness ==
    /\ \E i \in WithStatus("failed") : tasks[i].error_message = "Failed to call Ollama"
    /\ \E j \in WithStatus("completed") : tasks[j].error_message = None

\* ---------------------------------------------------------------------
\* C12
\* ---------------------------------------------------------------------

\* Entry i of self.tasks is the same Task object before and after the step.
SameTask(i) ==
    /\ i \in DOMAIN tasks /\ i \in DOMAIN tasks'
    /\ tasks[i].session = tasks'[i].session

\* C12: in every state between two steps a task that is not completed has
\* the empty output_data, and the output_data of a Task object turns
\* non-empty only in the step that turns its status to completed.
C12_OutputOnlyWhenCompleted ==
    /\ [](\A i \in DOMAIN tasks :
              tasks[i].status # "completed" => tasks[i].output_data = EmptyDict)
    /\ [][ \A i \in TaskIds :
              (SameTask(i) /\ tasks[i].output_data = EmptyDict
                           /\ tasks'[i].output_data # EmptyDict) =>
                  tasks[i].status # "completed" /\ tasks'[i].status = "completed" ]_vars

\* One task is completed with its output while a failed, an in_progress and
\* a pending task have none.
C12_Witness ==
    /\ \E i \in WithStatus("completed") : tasks[i].output_data = AgentResult(tasks[i])
    /\ \E j \in WithStatus("failed") : tasks[j].output_data = EmptyDict
    /\ \E k \in WithStatus("in_progress") : tasks[k].output_data = EmptyDict

\* ---------------------------------------------------------------------
\* C13
\* ---------------------------------------------------------------------

C14_CreationFieldsFrozen ==
    [][ \A i \in TaskIds : SameTask(i) =>
            /\ tasks'[i].id = tasks[i].id
            /\ tasks'[i].type = tasks[i].type
            /\ tasks'[i].description = tasks[i].description
            /\ tasks'[i].agent = tasks[i].agent
            /\ tasks'[i].input_data = tasks[i].input_data
            /\ tasks'[i].dependencies = tasks[i].dependencies ]_vars

\* A task with dependencies has been started and completed, and still has
\* the dependencies of the subtask it was built from.
C14_Witness ==
    \E i \in WithStatus("completed") :
        /\ tasks[i].dependencies # {}
        /\ tasks[i].dependencies = tasks[i].input_data.dependencies
        /\ tasks[i].output_data # EmptyDict
        /\ tasks[i].updated_at > 1

\* ---------------------------------------------------------------------
\* C15
\* ---------------------------------------------------------------------

\* The pending tasks of the graph whose dependencies all name completed tasks.
PendingWithCompletedDependencies ==
    {i \in WithStatus("pending") :
        \A d \in tasks[i].dependencies :
            d \in DOMAIN tasks /\ tasks[d].status = "completed"}

\* The place of id i in the running plan: the index of the subtask that
\* declares it, 0 when the plan declares no such id.
PlanIndex(i) ==
    LET K == {k \in 1 .. Len(plan) : plan[k].id = i}
    IN IF K = {} THEN 0 ELSE CHOOSE k \in K : \A j \in K : k <= j

\* A scheduler pass has just chosen ready_tasks; no task has changed since.
PassDone == pc = "for" /\ idx = 1

\* C15: the tasks a scheduler pass selects are exactly the pending tasks
\* whose dependencies are all completed, and the selected tasks that the
\* plan declares are taken in the order in which the plan declares them.
C15_ReadySelection ==
    PassDone =>
        /\ {ready_tasks[k] : k \in 1 .. Len(ready_tasks)} = PendingWithCompletedDependencies
        /\ \A j, k \in 1 .. Len(ready_tasks) :
               (j < k /\ PlanIndex(ready_tasks[j]) > 0 /\ PlanIndex(ready_tasks[k]) > 0) =>
                   PlanIndex(ready_tasks[j]) < PlanIndex(ready_tasks[k])

\* ---------------------------------------------------------------------
\* C16
\* ---------------------------------------------------------------------

\* C16: the step that computes the ready list changes no task, no key of
\* the graph and none of executed_tasks, results and plan, and computing the
\* ready list again in the state it leaves gives the list it has chosen.
C16_ReadyIsPure ==
    [][ (pc = "loop" /\ pc' # "loop") =>
            /\ tasks' = tasks /\ order' = order
            /\ executed_tasks' = executed_tasks /\ results' = results
            /\ plan' = plan /\ started' = started /\ messages' = messages
            /\ pc' = "for" =>
                   /\ ready_tasks' # << >>
                   /\ ready_tasks' = ReadyTasks(tasks', order', executed_tasks') ]_vars

\* A pass has chosen two tasks at once and left a third pending task out.
C16_Witness ==
    /\ PassDone
    /\ Len(ready_tasks) = 2
    /\ \E i \in WithStatus("pending") :
          \A k \in 1 .. Len(ready_tasks) : ready_tasks[k] # i

\* ---------------------------------------------------------------------
\* C17
\* ---------------------------------------------------------------------

\* The sum of the progress values of the entries of a reply.
RECURSIVE SumOfEntries(_)
SumOfEntries(entries) ==
    IF entries = << >> THEN 0
    ELSE Head(entries).progress + SumOfEntries(Tail(entries))

\* The graph has two tasks, one completed and one pending.
OneOfTwoCompleted ==
    /\ Len(order) = 2
    /\ Cardinality(WithStatus("completed")) = 1
    /\ Cardinality(WithStatus("pending")) = 1

\* C17: a reply of get_session_status has one entry per task of the graph,
\* with progress 100 for a completed task, 50 for a task in_progress and 0
\* for any other; its overall progress is the mean of these values, 0 for
\* the empty graph and 50 for a graph of one completed and one pending task.
C17_ProgressReport ==
    status_reply.asked =>
        LET entries == status_reply.tasks
            overall == status_reply.overall_progress
        IN /\ Len(entries) = Len(order)
           /\ \A k \in 1 .. Len(entries) :
                  /\ entries[k].id = order[k]
                  /\ entries[k].status = tasks[order[k]].status
                  /\ entries[k].progress =
                        CASE entries[k].status = "completed" -> 100
                          [] entries[k].status = "in_progress" -> 50
                          [] OTHER -> 0
           /\ overall.den > 0
           /\ IF entries = << >>
              THEN overall.num = 0
              ELSE overall.num * Len(entries) = SumOfEntries(entries) * overall.den
           /\ OneOfTwoCompleted => overall.num = 50 * overall.den

\* The reply for a graph of one completed and one pending task says 50.
C17_Witness ==
    /\ status_reply.asked
    /\ OneOfTwoCompleted
    /\ status_reply.overall_progress.num = 50 * status_reply.overall_progress.den

\* ---------------------------------------------------------------------
\* C18
\* ---------------------------------------------------------------------

\* C18: a step that returns a status reply, taken in whatever state, leaves
\* the tasks and their order, the message log and the active session id as
\* they were, and with them everything the scheduler's next step depends on:
\* its position, plan, executed_tasks, ready list, results and the clock.
C18_StatusIsReadOnly ==
    [][ status_reply'.asked =>
            /\ tasks' = tasks /\ order' = order
            /\ messages' = messages
            /\ active_session_id' = active_session_id
            /\ pc' = pc /\ plan' = plan /\ executed_tasks' = executed_tasks
            /\ ready_tasks' = ready_tasks /\ idx' = idx
            /\ results' = results /\ result' = result
            /\ started' = started /\ now' = now ]_vars

\* A status of the first session was read while the second session had a
\* task in_progress.
C18_Witness ==
    /\ status_reply.asked
    /\ status_reply.session_id = 1
    /\ active_session_id = 2
    /\ pc = "await"
    /\ \E k \in 1 .. Len(status_reply.tasks) : status_reply.tasks[k].status = "in_progress"

\* ---------------------------------------------------------------------
\* C19
\* ---------------------------------------------------------------------

\* _execute_tool_calls has returned.
ToolCallsDone == tpc = "done"

\* The call at position k of the response was dispatched the given way.
DispatchedVia(k, via, target) ==
    \E j \in 1 .. Len(dispatched) : dispatched[j] = Dispatch(k, via, target)

\* C19: when _execute_tool_calls has returned, every call with valid
\* arguments whose name is an in-process tool (and has no endpoint) was
\* invoked in-process and its entry carries the result the tool returned,
\* and every call whose name has an endpoint (and is no in-process tool) was
\* sent to that endpoint, whichever dialect the call was written in.
C19_DispatchByName ==
    ToolCallsDone =>
        \A k \in 1 .. Len(response) :
            LET c == response[k]
            IN c.args = "valid" =>
                 /\ c.name \in EnterpriseToolNames \ DOMAIN tool_endpoints =>
                       /\ DispatchedVia(k, "in_process", c.name)
                       /\ \E j \in 1 .. Len(tool_results) :
                             /\ tool_results[j].call = k
                             /\ tool_results[j].error.kind # "Unknown tool"
                             /\ tool_results[j].result.error.kind # "Unknown tool"
                 /\ c.name \in DOMAIN tool_endpoints \ EnterpriseToolNames =>
                       DispatchedVia(k, "endpoint", tool_endpoints[c.name].path)

\* ---------------------------------------------------------------------
\* C20
\* ---------------------------------------------------------------------

\* C20: when _execute_tool_calls has returned, every call with valid
\* arguments whose name neither path knows has an entry in tool_results
\* with success false and the error "Unknown tool: <name>".
C20_UnknownToolReported ==
    ToolCallsDone =>
        \A k \in 1 .. Len(response) :
            LET c == response[k]
            IN (c.args = "valid"
                  /\ c.name \notin EnterpriseToolNames \cup DOMAIN tool_endpoints) =>
                 \E j \in 1 .. Len(tool_results) :
                     /\ tool_results[j].call = k
                     /\ tool_results[j].success = FALSE
                     /\ \/ tool_results[j].error = ToolError("Unknown tool", c.name)
                        \/ tool_results[j].result.error = ToolError("Unknown tool", c.name)

\* ---------------------------------------------------------------------
\* C21
\* ---------------------------------------------------------------------

\* Call k of the response has been handled, and this is what became of it.
Handled(k) == \E j \in 1 .. Len(outcomes) : outcomes[j].call = k

OutcomeOf(k) == outcomes[CHOOSE j \in 1 .. Len(outcomes) : outcomes[j].call = k]

\* Call k could not be parsed or executed: its arguments were rejected, no
\* path knows its name, the tool raised or reported a failure, or the
\* request raised, was answered with an error status or with a failure.
CallFailed(k) ==
    LET o == OutcomeOf(k)
    IN \/ o.what \in {"bad_args", "no_attribute", "no_endpoint", "raises", "failed"}
       \/ /\ o.what = "request"
          /\ o.http.raised \/ o.http.status \notin {"200", "201"} \/ o.http.body # "ok"

\* tool_results has a failed entry with an error text for call k.
FailedEntry(k) ==
    \E j \in 1 .. Len(tool_results) :
        /\ tool_results[j].call = k
        /\ tool_results[j].success = FALSE
        /\ tool_results[j].error # NoToolError \/ tool_results[j].result.error # NoToolError

\* C21: when _execute_tool_calls has returned (it always returns: nothing in
\* its loops raises to the task), every call of the response was handled,
\* whatever became of the calls before it, and every call that failed has a
\* failed entry with an error text in tool_results.
C21_FailuresBecomeEntries ==
    ToolCallsDone =>
        \A k \in 1 .. Len(response) :
            /\ Handled(k)
            /\ CallFailed(k) => FailedEntry(k)

\* ---------------------------------------------------------------------
\* C22
\* ---------------------------------------------------------------------

\* The events of the context log that are about call k.
EventsOf(k) == {j \in 1 .. Len(context_log) : context_log[j].call = k}

\* C22: when _execute_tool_calls has returned, every invocation it made (a
\* tool function called, an HTTP request sent), whether it succeeded or
\* failed, has exactly one command-execution event in the context log.
C22_EveryInvocationLogged ==
    ToolCallsDone =>
        \A j \in 1 .. Len(dispatched) :
            Cardinality(EventsOf(dispatched[j].call)) = 1

\* ---------------------------------------------------------------------
\* C23
\* ---------------------------------------------------------------------

\* The 2xx status codes among StatusCodes.
Is2xx(status) == status \in {"200", "201"}

\* The entry of tool_results that answers call k.
EntryOf(k) ==
    tool_results[CHOOSE j \in 1 .. Len(tool_results) : tool_results[j].call = k]

\* C23: for every request sent for a remote-routable tool the entry holds
\* what _call_tool_endpoint returned, and that is: the decoded body when the
\* answer has a 2xx status (and a JSON body), success false with the error
\* "HTTP <status>: <body>" when the status is not 2xx, and success false
\* with the message of the exception when the transport raised.
C23_EndpointResult ==
    \A j \in 1 .. Len(outcomes) :
        LET o == outcomes[j]
            name == response[o.call].name
            res == EntryOf(o.call).result
        IN o.what = "request" =>
             /\ res.present
             /\ o.http.raised =>
                   res.success = FALSE /\ res.error = ToolError("exception", name)
             /\ (~o.http.raised /\ Is2xx(o.http.status) /\ o.http.body # "garbled") =>
                   res = Decoded(name, o.http.body)
             /\ (~o.http.raised /\ ~Is2xx(o.http.status)) =>
                   res = ToolResult(FALSE, HttpError(o.http.status, o.http.body))

\* ---------------------------------------------------------------------
\* C24
\* ---------------------------------------------------------------------

\* The parsing function has returned for a text of kind k.
Parsed(k) == ppc = "done" /\ given.kind = k

\* The arguments the legacy call of the text was written with.
GivenParams ==
    {<< << "path" >>, given.v1.chars >>, << << "content" >>, given.v2.chars >>}

\* C24: a response with exactly one legacy call
\* TOOL_CALL:name(path=v1, content=v2) yields exactly one tool call, with
\* that name and the arguments {path: v1, content: v2}, the values without
\* their quotes, and exactly one entry in tool_results.
C24_LegacyCallParsed ==
    Parsed("legacy") =>
        /\ parsed.calls = << [name |-> given.name, params |-> GivenParams] >>
        /\ parsed.entries = 1

\* ---------------------------------------------------------------------
\* C25
\* ---------------------------------------------------------------------

\* C25: a response with the fragment {"tool": name, "args": {...}} yields
\* one tool call with that name and the args object as json.loads gives
\* it, at every nesting depth of args.
C25_StructuredCallParsed ==
    Parsed("json") =>
        parsed.calls = << [name |-> given.name, ok |-> TRUE,
                           args |-> given.args] >>

\* ---------------------------------------------------------------------
\* C26
\* ---------------------------------------------------------------------

\* C26: _extract_json returns the array of a text that wraps a JSON array
\* in a fenced block, returns the first fenced object of a text with
\* fenced objects, and for a text without brackets and braces raises the
\* exception that carries the first ExcerptLen characters of the text (the
\* whole text when it is shorter).
C26_PlanExtracted ==
    /\ Parsed("fenced") \/ Parsed("two_fenced") =>
          parsed.ok /\ parsed.value = given.value
    /\ Parsed("plain") =>
          /\ ~parsed.ok
          /\ Len(parsed.excerpt) <= ExcerptLen
          /\ parsed.excerpt = SubSeq(text, 1, Len(parsed.excerpt))
          /\ Len(text) <= ExcerptLen => parsed.excerpt = text

\* ---------------------------------------------------------------------
\* C29
\* ---------------------------------------------------------------------

\* The last process_goal call has returned status "completed".
ReturnedCompleted ==
    pc = "idle" /\ result # NoResult /\ result.status = "completed"

\* C29: whenever a process_goal call has returned status "completed",
\* every subtask of that call's plan has status completed.
C29_CompletedMeansPlanCompleted ==
    ReturnedCompleted =>
        \A j \in 1 .. Len(plan) :
            /\ plan[j].id \in DOMAIN tasks
            /\ tasks[plan[j].id].status = "completed"

\* ---------------------------------------------------------------------
\* C27
\* ---------------------------------------------------------------------

\* The session ids that submissions have returned.
Submitted == {submitted[j] : j \in 1 .. Len(submitted)}

C28_SubmittedSessionAnswered ==
    [][/\ \A session_id \in 1 .. MaxSeconds :
            (get_task_status(session_id) /\ session_id \in Submitted) =>
                /\ http_reply'.code = 200
                /\ http_reply'.session_id = session_id
                /\ http_reply'.status \in
                       {"initiated", "processing", "completed", "failed"}
                /\ http_reply'.progress \in {0, 100}
       /\ DOMAIN active_sessions \subseteq DOMAIN active_sessions']_vars

\* A status request was answered while the job of its session was running,
\* after another session had ended.
C28_Witness ==
    /\ http_reply.code = 200
    /\ http_reply.status = "processing"
    /\ job = http_reply.session_id
    /\ \E i \in DOMAIN active_sessions : active_sessions[i].status = "completed"

\* ---------------------------------------------------------------------
\* C30
\* ---------------------------------------------------------------------

\* C30: a session record has status "completed" only if process_goal
\* returned status "completed" for it, and a record whose process_goal
\* returned status "failed" has status "failed".
C30_RecordFollowsResult ==
    \A i \in DOMAIN active_sessions :
        /\ active_sessions[i].status = "completed" =>
               active_sessions[i].result = "completed"
        /\ active_sessions[i].result = "failed" =>
               active_sessions[i].status = "failed"

\* ---------------------------------------------------------------------
\* C31
\* ---------------------------------------------------------------------

\* C31: the session id a submission creates is no key of active_sessions
\* before the submission, and the submission leaves the record of every
\* existing session as it was.
C31_SubmissionCreatesFreshId ==
    [][submitted' # submitted =>
          /\ submitted'[Len(submitted')] \notin DOMAIN active_sessions
          /\ \A i \in DOMAIN active_sessions :
                 active_sessions'[i] = active_sessions[i]]_vars

\* ---------------------------------------------------------------------
\* C32
\* ---------------------------------------------------------------------

\* C32: whenever a process_goal call is over, it has returned a result
\* whose status is "completed" or "failed", and a "failed" result carries
\* the error and every task of self.tasks in its current state.
C32_AlwaysReturnsResult ==
    (pc = "idle" /\ active_session_id # NoSession) =>
        /\ result.status \in {"completed", "failed"}
        /\ result.session_id = active_session_id
        /\ result.status = "failed" =>
              /\ result.error # NoError
              /\ result.error.cause # ""
              /\ result.tasks = TaskList(tasks, order)

\* A call has returned "failed" because a task failed, with a failed and
\* a pending task in the result.
C32_Witness ==
    /\ pc = "idle"
    /\ result.status = "failed"
    /\ result.error.kind = "task_failed"
    /\ \E j, k \in 1 .. Len(result.tasks) :
           /\ result.tasks[j].status = "failed"
           /\ result.tasks[k].status = "pending"

\* ---------------------------------------------------------------------
\* C33
\* ---------------------------------------------------------------------

\* The _call_ollama calls the running process_goal call made for task i.
CallsFor(i) == {j \in 1 .. Len(ollama_calls) : ollama_calls[j].task = i}

\* C33: of the tasks the running call has dispatched, a designer task is
\* sent once to the control model and its output has no tool_results; a
\* coder task is sent once to the code model and its output has
\* tool_results; a planner or context task is sent to no model, fails with
\* "Unknown agent type" and the call returns "failed".
C33_DispatchByRole ==
    \A j \in 1 .. Len(started) :
        LET t == tasks[started[j]]
        IN t.status # "in_progress" =>
             /\ t.agent = "designer" =>
                   /\ Cardinality(CallsFor(t.id)) = 1
                   /\ \A c \in CallsFor(t.id) : ollama_calls[c].model = "control"
                   /\ t.status = "completed" =>
                         /\ t.output_data.type = "design_spec"
                         /\ "tool_results" \notin t.output_data.keys
             /\ t.agent = "coder" =>
                   /\ Cardinality(CallsFor(t.id)) = 1
                   /\ \A c \in CallsFor(t.id) : ollama_calls[c].model = "code"
                   /\ t.status = "completed" =>
                         /\ t.output_data.type = "implementation"
                         /\ "tool_results" \in t.output_data.keys
             /\ t.agent \in {"planner", "context"} =>
                   /\ CallsFor(t.id) = {}
                   /\ t.status = "failed"
                   /\ t.error_message = "Unknown agent type"
                   /\ pc = "idle" /\ result.status = "failed"

\* One call has completed a designer task and a coder task.
C33_Witness ==
    \E i, k \in DOMAIN tasks :
        /\ CallsFor(i) # {} /\ CallsFor(k) # {}
        /\ tasks[i].agent = "designer" /\ tasks[i].status = "completed"
        /\ tasks[k].agent = "coder" /\ tasks[k].status = "completed"

\* ---------------------------------------------------------------------
\* C34
\* ---------------------------------------------------------------------

\* C34: at most one task of self.tasks has status in_progress, and the
\* step that moves a task to in_progress starts from a state in which no
\* task is in_progress.
C34_OneTaskInProgress ==
    [][/\ Cardinality(WithStatus("in_progress")) <= 1
       /\ Cardinality({i \in DOMAIN tasks' : tasks'[i].status = "in_progress"}) <= 1
       /\ started' # started => WithStatus("in_progress") = {}]_vars

\* A second task of one pass is in progress after the first has completed.
C34_Witness ==
    /\ Len(started) = 2
    /\ tasks[started[1]].status = "completed"
    /\ tasks[started[2]].status = "in_progress"

\* ---------------------------------------------------------------------
\* C35
\* ---------------------------------------------------------------------

\* The place of a session status on the way initiated, processing, then
\* completed or failed.
StatusRank(st) ==
    IF st = "initiated" THEN 1 ELSE IF st = "processing" THEN 2 ELSE 3

\* C35: in every step the status of every session record stays or moves
\* forward on the way initiated, processing, completed or failed, and a
\* completed or failed record keeps its status; the progress of a record
\* is 0 or more, is 0 while the status is initiated or processing, and is
\* 100 only when the status is completed.
C35_SessionStatusMovesForward ==
    [][\A i \in DOMAIN active_sessions :
          /\ StatusRank(active_sessions'[i].status)
                 >= StatusRank(active_sessions[i].status)
          /\ active_sessions[i].status \in {"completed", "failed"} =>
                 active_sessions'[i].status = active_sessions[i].status
          /\ active_sessions'[i].progress >= 0
          /\ active_sessions'[i].status \in {"initiated", "processing"} =>
                 active_sessions'[i].progress = 0
          /\ active_sessions'[i].progress = 100 =>
                 active_sessions'[i].status = "completed"]_vars

\* ---------------------------------------------------------------------
\* C36
\* ---------------------------------------------------------------------

\* The ids of the items of a queue.
IdsOf(q) == {q[i].id : i \in 1 .. Len(q)}

\* The items of q stand in the order in which their screenshots were taken.
InArrivalOrder(q) == \A i, j \in 1 .. Len(q) : i < j => q[i].id < q[j].id

\* C36: after every step the main queue holds at most 10 items, in order of
\* arrival; a step that takes a screenshot appends its item and, when the
\* queue held 10 items already, removes the oldest one; and the total_count
\* of an answer of GET /queue is the length of the main queue plus the
\* length of the extra queue.
C36_MainQueueBounded ==
    [][/\ Len(screenshot_queue') <= QueueLimit
       /\ InArrivalOrder(screenshot_queue')
       /\ issued' # issued =>
             screenshot_queue' =
                 (IF Len(screenshot_queue) = QueueLimit
                  THEN Tail(screenshot_queue) ELSE screenshot_queue)
                 \o << ScreenshotItem(issued') >>
       /\ queue_reply'.kind = "queue" =>
             queue_reply'.total_count =
                 Len(screenshot_queue') + Len(extra_screenshot_queue')]_vars

\* The eleventh screenshot was taken with ten items in the queue.
C36_Witness ==
    /\ issued = QueueLimit + 1
    /\ queue_requests = 0
    /\ Len(screenshot_queue) = QueueLimit
    /\ screenshot_queue[1].id = 2
    /\ screenshot_queue[QueueLimit].id = QueueLimit + 1

\* ---------------------------------------------------------------------
\* C37
\* ---------------------------------------------------------------------

\* C37: a move-to-extra request for an id of the main queue is answered 200,
\* takes exactly the item of that id out of the main queue, keeping the
\* other items and their order, and puts it at the end of the extra queue,
\* whose other items stay, so that the total count is unchanged; a request
\* for an id that is not in the main queue is answered 404 and changes
\* neither queue; and after every step no id is in both queues.
C37_MoveToExtra ==
    [][/\ (queue_requests' # queue_requests
             /\ queue_reply'.kind \in {"moved", "not_found"}) =>
             LET id == queue_reply'.id
             IN  IF id \in IdsOf(screenshot_queue)
                 THEN /\ queue_reply'.status_code = 200
                      /\ queue_reply'.kind = "moved"
                      /\ screenshot_queue' = Without(screenshot_queue, id)
                      /\ Len(screenshot_queue') = Len(screenshot_queue) - 1
                      /\ extra_screenshot_queue' =
                             Append(extra_screenshot_queue,
                                    ScreenshotItem(id))
                      /\ Len(screenshot_queue') + Len(extra_screenshot_queue')
                            = Len(screenshot_queue)
                                 + Len(extra_screenshot_queue)
                 ELSE /\ queue_reply'.status_code = 404
                      /\ queue_reply'.kind = "not_found"
                      /\ UNCHANGED << screenshot_queue,
                                      extra_screenshot_queue >>
       /\ IdsOf(screenshot_queue') \cap IdsOf(extra_screenshot_queue') = {}
      ]_vars

\* The second of three screenshots has been moved.
C37_Witness ==
    /\ queue_reply.kind = "moved"
    /\ queue_reply.id = 2
    /\ screenshot_queue = << ScreenshotItem(1), ScreenshotItem(3) >>
    /\ extra_screenshot_queue = << ScreenshotItem(2) >>

====
